---- MODULE Spec2Model ----
(***************************************************************************)
(* Model of the 3D geometry engine of freetheprogs: the OBJ parser (both   *)
(* versions kept in the repository), the scene validator, the OBJ encoder, *)
(* the PLY parser (both versions) and the glTF parser, as state machines   *)
(* over the canonical Scene model.                                         *)
(*                                                                         *)
(* JavaScript values are represented as follows.                           *)
(*   - an optional value (x | undefined) is a sequence: <<>> or <<x>>;     *)
(*   - a float is a record [fin, v]: a finite number v, or (fin = FALSE)   *)
(*     Infinity (v = 1) or NaN (v = 0);                                    *)
(*   - a face index is a record [int, v]: the integer v, or (int = FALSE)  *)
(*     a non-integer number whose floor is v;                              *)
(*   - a line of text is the record of its whitespace-separated tokens,    *)
(*     a face reference the sequence of its '/'-separated parts.           *)
(***************************************************************************)
EXTENDS Integers, Sequences, FiniteSets, TLC

VARIABLES
    variant,        \* which parseOBJ of the repository runs
    pc,             \* position of the run
    lineNum,        \* number of lines of the input consumed so far
    acc,            \* accumulator of the line loop (OBJData + currentMaterial)
    result,         \* Result of parseOBJ, once returned
    objText,        \* Result of toOBJ(result.value), once computed
    reparsed,       \* Result of parseOBJ(objText.value), once computed
    fileV,          \* history: the data of the accepted `v` lines, in order
    fileF,          \* history: the refs of the accepted `f` lines, in order
    fileM,          \* history: per `f` line, the name of the latest `usemtl name` line before it
    lastNamed,      \* history: the name of the latest `usemtl name` line
    eof,            \* history: the line loop reached the end of the input
    scene,          \* validator run: the scene under construction
    vpc,            \* validator run: position
    vresult,        \* validator run: Result of validateScene(scene)
    plyText,        \* export run: Result of convertSceneToPLY(scene)
    plyVariant,     \* which parsePLY of the repository runs
    plyPc,          \* PLY run: position
    plyDoc,         \* PLY run: the geometry the caller writes to a file
    plyFile,        \* PLY run: the file handed to parsePLY
    plyRun,         \* PLY run: outcome of parsePLY(plyFile)
    plyTwin,        \* PLY run: outcome of parsePLY on the same data in the other encoding
    gltf,           \* glTF run: the JSON document handed to parseGLTF
    gpc,            \* glTF run: position inside parseGLTF
    gwork,          \* glTF run: history of the buffer and accessor steps taken
    gbuffers,       \* glTF run: Result of loadBuffers
    gresult,        \* glTF run: Result of parseGLTF, once returned
    items,          \* collect run: the elements handed to traverse
    allPc,          \* collect run: position
    collected,      \* collect run: the Result that `all` returned
    calls           \* paired run: the state of each parseBinaryBodyFromArrayBuffer call

objVars == <<variant, pc, lineNum, acc, result, objText, reparsed, fileV, fileF, fileM, lastNamed,
             eof>>
valVars == <<scene, vpc, vresult, plyText>>
plyVars == <<plyVariant, plyPc, plyDoc, plyFile, plyRun, plyTwin>>
gltfVars == <<gltf, gpc, gwork, gbuffers, gresult>>
resVars == <<items, allPc, collected>>
callVars == <<calls>>
vars == <<variant, pc, lineNum, acc, result, objText, reparsed, fileV, fileF, fileM, lastNamed,
          eof, scene, vpc, vresult, plyText, plyVariant, plyPc, plyDoc, plyFile, plyRun, plyTwin,
          gltf, gpc, gwork, gbuffers, gresult, items, allPc, collected,
          calls>>

(***************************************************************************)
(* Bounds                                                                  *)
(***************************************************************************)
MaxLines == 6
MaxPositions == 3
MaxFaces == 2
MaxAttrs == 1
MaxMeshes == 2
MaxMeshVertices == 2
MaxMeshFaces == 1

(***************************************************************************)
(* Option and Result                                                       *)
(***************************************************************************)
None == <<>>

Some(x) == <<x>>

Ok(v) == [ok |-> TRUE, value |-> v]

Err(e) == [ok |-> FALSE, error |-> e]

\* An exception that leaves the function: no Result is returned.
Thrown(msg) == [ok |-> FALSE, thrown |-> TRUE, error |-> [message |-> msg]]

IsThrown(r) == "thrown" \in DOMAIN r

(***************************************************************************)
(* Numbers and their text                                                  *)
(***************************************************************************)
Num(n) == [fin |-> TRUE, v |-> n]

Infinity == [fin |-> FALSE, v |-> 1]

NaN == [fin |-> FALSE, v |-> 0]

isNaN(x) == x = NaN

isFinite(x) == x.fin

\* Number order, for Math.min / Math.max (no NaN reaches them).
NumLeq(a, b) == IF b.fin THEN a.fin /\ a.v <= b.v ELSE TRUE

\* Decimal digits strings of the integers the model writes and reads.
Digits == <<"1", "2", "3", "4", "5", "6", "7", "8", "9", "10", "11", "12", "13", "14", "15", "16">>

parseFloat(s) ==
    IF s = "0" \/ s = "0.0" THEN Num(0)
    ELSE IF s = "1.0" THEN Num(1)
    ELSE IF \E d \in 1..Len(Digits) : Digits[d] = s
         THEN Num(CHOOSE d \in 1..Len(Digits) : Digits[d] = s)
    ELSE IF s = "Infinity" THEN Infinity
    ELSE NaN

\* parseInt(s, 10): [nan, v]
parseInt(s) ==
    IF s = "0" THEN [nan |-> FALSE, v |-> 0]
    ELSE IF s = "-1" THEN [nan |-> FALSE, v |-> -1]
    ELSE IF \E d \in 1..Len(Digits) : Digits[d] = s
         THEN [nan |-> FALSE, v |-> CHOOSE d \in 1..Len(Digits) : Digits[d] = s]
    ELSE [nan |-> TRUE, v |-> 0]

\* `${n}` of an integer.
IntToString(n) == IF n = 0 THEN "0" ELSE IF n = -1 THEN "-1" ELSE Digits[n]

\* Number(n).toString()
fmt(x) ==
    IF x = Infinity THEN "Infinity"
    ELSE IF x = NaN THEN "NaN"
    ELSE IntToString(x.v)

Idx(n) == [int |-> TRUE, v |-> n]

(***************************************************************************)
(* Scene data model                                                        *)
(***************************************************************************)
createVec3(x, y, z) == [x |-> x, y |-> y, z |-> z]

createVec2(x, y) == [x |-> x, y |-> y]

createVertex(position, normal, texCoord) ==
    [position |-> position, normal |-> normal, texCoord |-> texCoord]

createFace(indices, material) == [indices |-> indices, material |-> material]

createMesh(name, vertices, faces, material) ==
    [name |-> name, vertices |-> vertices, faces |-> faces, material |-> material]

createScene(meshes, materials, metadata) ==
    [meshes |-> meshes, materials |-> materials, metadata |-> metadata]

(***************************************************************************)
(* Scene validator                                                         *)
(***************************************************************************)
\* A path such as `mesh.<name>.faces[<index>]` or `vec3.x`.
Path(root, name, field, index) ==
    [root |-> root, name |-> name, field |-> field, index |-> index]

ValidationError(message, code, path) ==
    [message |-> message, code |-> code, path |-> path]

WithPath(error, path) == [error EXCEPT !.path = Some(path)]

\* Mutant: a non-finite number is accepted.
validateNumberAcceptingAll(value) == Ok(value)

validateNumber(value) ==
    IF ~isFinite(value)
    THEN Err(ValidationError("Invalid number", "INVALID_NUMBER", None))
    ELSE Ok(value)

validateVec3(vec) ==
    LET xResult == validateNumber(vec.x)
        yResult == validateNumber(vec.y)
        zResult == validateNumber(vec.z)
    IN  IF ~xResult.ok THEN Err(WithPath(xResult.error, Path("vec3", "", "x", -1)))
        ELSE IF ~yResult.ok THEN Err(WithPath(yResult.error, Path("vec3", "", "y", -1)))
        ELSE IF ~zResult.ok THEN Err(WithPath(zResult.error, Path("vec3", "", "z", -1)))
        ELSE Ok(vec)

validateVertex(vertex) ==
    LET positionResult == validateVec3(vertex.position)
    IN  IF ~positionResult.ok
        THEN Err(WithPath(positionResult.error, Path("vertex", "", "position", -1)))
        ELSE IF vertex.normal # None /\ ~validateVec3(vertex.normal[1]).ok
        THEN Err(WithPath(validateVec3(vertex.normal[1]).error, Path("vertex", "", "normal", -1)))
        ELSE Ok(vertex)

\* The `for (const index of indices)` loop, from position k.
RECURSIVE checkIndices(_, _, _)
checkIndices(indices, vertexCount, k) ==
    IF k > Len(indices) THEN Ok(indices)
    ELSE IF ~indices[k].int \/ indices[k].v < 0 \/ indices[k].v >= vertexCount
    THEN Err(ValidationError("Face index is out of bounds", "INDEX_OUT_OF_BOUNDS", None))
    ELSE checkIndices(indices, vertexCount, k + 1)

\* Mutant: a face of two indices is accepted.
validateFaceIndicesMinTwo(indices, vertexCount) ==
    IF Len(indices) < 2
    THEN Err(ValidationError("Face must have at least 3 indices", "INVALID_FACE_SIZE", None))
    ELSE checkIndices(indices, vertexCount, 1)

validateFaceIndices(indices, vertexCount) ==
    IF Len(indices) < 3
    THEN Err(ValidationError("Face must have at least 3 indices", "INVALID_FACE_SIZE", None))
    ELSE checkIndices(indices, vertexCount, 1)

\* The face loop of validateMesh, from face i (1-based here, 0-based in the path).
RECURSIVE checkFaces(_, _)
checkFaces(mesh, i) ==
    IF i > Len(mesh.faces) THEN Ok(mesh)
    ELSE LET indicesResult == validateFaceIndices(mesh.faces[i].indices, Len(mesh.vertices))
         IN  IF ~indicesResult.ok
             THEN Err(WithPath(indicesResult.error, Path("mesh", mesh.name, "faces", i - 1)))
             ELSE checkFaces(mesh, i + 1)

\* The vertex loop of validateMesh, from vertex i, followed by the face loop.
RECURSIVE checkVertices(_, _)
checkVertices(mesh, i) ==
    IF i > Len(mesh.vertices) THEN checkFaces(mesh, 1)
    ELSE LET vertexResult == validateVertex(mesh.vertices[i])
         IN  IF ~vertexResult.ok
             THEN Err(WithPath(vertexResult.error, Path("mesh", mesh.name, "vertices", i - 1)))
             ELSE checkVertices(mesh, i + 1)

\* Mutant: the faces are checked before the vertices.
validateMeshFacesFirst(mesh) ==
    IF Len(mesh.vertices) = 0
    THEN Err(ValidationError("Mesh must have at least one vertex", "EMPTY_MESH",
                             Some(Path("mesh", mesh.name, "", -1))))
    ELSE IF ~checkFaces(mesh, 1).ok THEN checkFaces(mesh, 1)
    ELSE checkVertices(mesh, 1)

validateMesh(mesh) ==
    IF Len(mesh.vertices) = 0
    THEN Err(ValidationError("Mesh must have at least one vertex", "EMPTY_MESH",
                             Some(Path("mesh", mesh.name, "", -1))))
    ELSE checkVertices(mesh, 1)

\* meshes.reduce((sum, mesh) => sum + f(mesh).length, 0)
RECURSIVE sumLengths(_, _)
sumLengths(meshes, field) ==
    IF meshes = <<>> THEN 0
    ELSE Len(meshes[1][field]) + sumLengths(Tail(meshes), field)

\* The mesh loop of validateScene, from mesh i, followed by the metadata checks.
RECURSIVE checkMeshes(_, _)
checkMeshes(s, i) ==
    IF i > Len(s.meshes)
    THEN LET totalVertices == sumLengths(s.meshes, "vertices")
             totalFaces == sumLengths(s.meshes, "faces")
         IN  IF s.metadata.vertexCount # totalVertices
             THEN Err(ValidationError("Metadata vertex count doesn't match actual count",
                                      "METADATA_MISMATCH",
                                      Some(Path("scene", "", "metadata.vertexCount", -1))))
             ELSE IF s.metadata.faceCount # totalFaces
             THEN Err(ValidationError("Metadata face count doesn't match actual count",
                                      "METADATA_MISMATCH",
                                      Some(Path("scene", "", "metadata.faceCount", -1))))
             ELSE Ok(s)
    ELSE LET meshResult == validateMesh(s.meshes[i])
         IN  IF ~meshResult.ok THEN meshResult ELSE checkMeshes(s, i + 1)

validateScene(s) ==
    IF Len(s.meshes) = 0
    THEN Err(ValidationError("Scene must have at least one mesh", "EMPTY_SCENE", None))
    ELSE checkMeshes(s, 1)

(***************************************************************************)
(* Result combinators                                                      *)
(***************************************************************************)
\* all: the first failure in sequence order, else the list of the values.
RECURSIVE allFrom(_, _, _)
allFrom(results, k, values) ==
    IF k > Len(results) THEN Ok(values)
    ELSE IF ~results[k].ok THEN results[k]
    ELSE allFrom(results, k + 1, Append(values, results[k].value))

\* Mutant: the failure returned is the last one.
RECURSIVE allLastFailure(_)
allLastFailure(results) ==
    IF \A k \in 1..Len(results) : results[k].ok
    THEN Ok([k \in 1..Len(results) |-> results[k].value])
    ELSE IF ~results[Len(results)].ok THEN results[Len(results)]
    ELSE allLastFailure(SubSeq(results, 1, Len(results) - 1))

all(results) == allFrom(results, 1, <<>>)

\* pipe(value, fn): the function applied to the value.
pipe(value, fn(_)) == fn(value)

(***************************************************************************)
(* OBJ parser.  The repository holds two parseOBJ: the loop of             *)
(* shared/parsers/obj.ts and the fold of its functional rewrite.           *)
(***************************************************************************)
Imperative == "obj.ts"

Functional == "fold"

Variants == {Imperative, Functional}

ParseError(message, line) == [message |-> message, detail |-> "", line |-> line]

\* A line after trim() and split(/\s+/): its directive and its arguments.
\* `data` holds the arguments of every directive but `f`, whose arguments
\* are kept in `refs`, each already split on '/'.
Line(type, data, refs) == [type |-> type, data |-> data, refs |-> refs]

\* parseLine: TRUE when the line is skipped (empty or comment).
parseLine(line) == line.type = "" \/ line.type = "#"

parseVertexPosition(parts) ==
    IF Len(parts) < 3 THEN Err("Vertex position requires at least 3 components")
    ELSE LET x == parseFloat(parts[1])
             y == parseFloat(parts[2])
             z == parseFloat(parts[3])
         IN  IF isNaN(x) \/ isNaN(y) \/ isNaN(z)
             THEN Err("Invalid vertex position values")
             ELSE Ok(createVec3(x, y, z))

parseTextureCoord(parts) ==
    IF Len(parts) < 2 THEN Err("Texture coordinate requires at least 2 components")
    ELSE LET u == parseFloat(parts[1])
             v == parseFloat(parts[2])
         IN  IF isNaN(u) \/ isNaN(v)
             THEN Err("Invalid texture coordinate values")
             ELSE Ok(createVec2(u, v))

parseNormal(parts) ==
    IF Len(parts) < 3 THEN Err("Normal requires 3 components")
    ELSE LET x == parseFloat(parts[1])
             y == parseFloat(parts[2])
             z == parseFloat(parts[3])
         IN  IF isNaN(x) \/ isNaN(y) \/ isNaN(z)
             THEN Err("Invalid normal values")
             ELSE Ok(createVec3(x, y, z))

\* Mutant: the written index is used as it is.
toZeroBasedIdentity(vertexIndex) == vertexIndex

\* 1-based written index to 0-based index.
toZeroBased(vertexIndex) == vertexIndex - 1

\* parseFaceIndex: parts = ref.split('/'); parts[k] is undefined beyond Len.
parseFaceIndex(parts) ==
    LET has2 == Len(parts) >= 2 /\ parts[2] # ""
        has3 == Len(parts) >= 3 /\ parts[3] # ""
    IN  IF parts[1] = "" THEN Err("Invalid face index")
        ELSE IF parseInt(parts[1]).nan THEN Err("Invalid face index")
        ELSE IF has2 /\ parseInt(parts[2]).nan THEN Err("Invalid texture index")
        ELSE IF has3 /\ parseInt(parts[3]).nan THEN Err("Invalid normal index")
        ELSE Ok([posIndex |-> toZeroBased(parseInt(parts[1]).v),
                 texIndex |-> IF has2 THEN Some(toZeroBased(parseInt(parts[2]).v)) ELSE None,
                 normIndex |-> IF has3 THEN Some(toZeroBased(parseInt(parts[3]).v)) ELSE None])

parseFace(parts) ==
    IF Len(parts) < 3 THEN Err("Face must have at least 3 vertices")
    ELSE all([k \in 1..Len(parts) |-> parseFaceIndex(parts[k])])

\* case 'usemtl' of the loop of obj.ts: an argument-less usemtl is ignored.
usemtlLoop(a, parts) ==
    IF Len(parts) > 0 THEN [a EXCEPT !.currentMaterial = Some(parts[1])] ELSE a

\* case 'usemtl' of the fold: an argument-less usemtl clears the material.
usemtlFold(a, parts) ==
    [a EXCEPT !.currentMaterial = IF Len(parts) > 0 THEN Some(parts[1]) ELSE None]

\* One iteration of the line loop on a line that is not skipped.
processLine(v, a, line, n) ==
    CASE line.type = "v" ->
           LET r == parseVertexPosition(line.data)
           IN  IF ~r.ok THEN Err(ParseError(r.error, n))
               ELSE Ok([a EXCEPT !.positions = Append(@, r.value)])
      [] line.type = "vt" ->
           LET r == parseTextureCoord(line.data)
           IN  IF ~r.ok THEN Err(ParseError(r.error, n))
               ELSE Ok([a EXCEPT !.texCoords = Append(@, r.value)])
      [] line.type = "vn" ->
           LET r == parseNormal(line.data)
           IN  IF ~r.ok THEN Err(ParseError(r.error, n))
               ELSE Ok([a EXCEPT !.normals = Append(@, r.value)])
      [] line.type = "f" ->
           LET r == parseFace(line.refs)
           IN  IF ~r.ok THEN Err(ParseError(r.error, n))
               ELSE Ok([a EXCEPT !.faces =
                          Append(@, [vertices |-> r.value, material |-> a.currentMaterial])])
      [] line.type = "usemtl" ->
           Ok(IF v = Imperative THEN usemtlLoop(a, line.data) ELSE usemtlFold(a, line.data))
      [] OTHER -> Ok(a)

initialAcc ==
    [positions |-> <<>>, normals |-> <<>>, texCoords |-> <<>>, faces |-> <<>>,
     currentMaterial |-> None]

\* The line loop from line k (1-based line number) with accumulator a.
RECURSIVE parseLinesFrom(_, _, _, _)
parseLinesFrom(v, lines, k, a) ==
    IF k > Len(lines) THEN Ok(a)
    ELSE IF parseLine(lines[k]) THEN parseLinesFrom(v, lines, k + 1, a)
    ELSE LET r == processLine(v, a, lines[k], k)
         IN  IF ~r.ok THEN r ELSE parseLinesFrom(v, lines, k + 1, r.value)

parseLines(v, lines) == parseLinesFrom(v, lines, 1, initialAcc)

(***************************************************************************)
(* OBJ vertex building (deduplication)                                     *)
(***************************************************************************)
\* x ?? -1
orMinusOne(opt) == IF opt = None THEN -1 ELSE opt[1]

\* The key `${posIndex}-${texIndex ?? -1}-${normIndex ?? -1}`: the string is
\* determined by, and determines, the three integers it prints.
vertexKey(posIndex, texIndex, normIndex) ==
    <<posIndex, orMinusOne(texIndex), orMinusOne(normIndex)>>

\* arr[i] of a JavaScript array: undefined outside 0..length-1.
at(arr, i) == IF i >= 0 /\ i < Len(arr) THEN Some(arr[i + 1]) ELSE None

\* The vertex built for a new key from the referenced attributes.
newVertex(data, posIndex, texIndex, normIndex) ==
    LET normal == IF normIndex # None THEN at(data.normals, normIndex[1]) ELSE None
        texCoord == IF texIndex # None /\ at(data.texCoords, texIndex[1]) # None
                    THEN Some(createVec2(at(data.texCoords, texIndex[1])[1].x,
                                         at(data.texCoords, texIndex[1])[1].y))
                    ELSE None
    IN  createVertex(at(data.positions, posIndex)[1], normal, texCoord)

\* addVertex of the fold: Ok(<<index, accumulator>>) or an error Result.
addVertex(va, data, posIndex, texIndex, normIndex) ==
    LET key == vertexKey(posIndex, texIndex, normIndex)
    IN  IF key \in DOMAIN va.vertexMap THEN Ok(<<va.vertexMap[key], va>>)
        ELSE IF at(data.positions, posIndex) = None
        THEN Err(ParseError("Position index out of bounds", 0))
        ELSE Ok(<<Len(va.vertices),
                  [vertexMap |-> (key :> Len(va.vertices)) @@ va.vertexMap,
                   vertices |-> Append(va.vertices,
                                       newVertex(data, posIndex, texIndex, normIndex))]>>)

\* getOrCreateVertex of obj.ts: the same, but an unknown position throws.
getOrCreateVertex(va, data, posIndex, texIndex, normIndex) ==
    LET key == vertexKey(posIndex, texIndex, normIndex)
    IN  IF key \in DOMAIN va.vertexMap THEN Ok(<<va.vertexMap[key], va>>)
        ELSE IF at(data.positions, posIndex) = None
        THEN Thrown("Position index out of bounds")
        ELSE Ok(<<Len(va.vertices),
                  [vertexMap |-> (key :> Len(va.vertices)) @@ va.vertexMap,
                   vertices |-> Append(va.vertices,
                                       newVertex(data, posIndex, texIndex, normIndex))]>>)

\* Mutant: a ref whose vertex cannot be built is skipped.
RECURSIVE faceIndicesSkipping(_, _, _, _, _, _)
faceIndicesSkipping(v, data, refs, k, indices, va) ==
    IF k > Len(refs) THEN Ok(<<indices, va>>)
    ELSE LET r == addVertex(va, data, refs[k].posIndex, refs[k].texIndex, refs[k].normIndex)
         IN  IF ~r.ok THEN faceIndicesSkipping(v, data, refs, k + 1, indices, va)
             ELSE faceIndicesSkipping(v, data, refs, k + 1,
                                      Append(indices, Idx(r.value[1])), r.value[2])

\* The refs of one face, from ref k: Ok(<<indices, accumulator>>) or the failure.
RECURSIVE faceIndicesFrom(_, _, _, _, _, _)
faceIndicesFrom(v, data, refs, k, indices, va) ==
    IF k > Len(refs) THEN Ok(<<indices, va>>)
    ELSE LET r == IF v = Imperative
                  THEN getOrCreateVertex(va, data, refs[k].posIndex, refs[k].texIndex,
                                         refs[k].normIndex)
                  ELSE addVertex(va, data, refs[k].posIndex, refs[k].texIndex,
                                 refs[k].normIndex)
         IN  IF ~r.ok THEN r
             ELSE faceIndicesFrom(v, data, refs, k + 1,
                                  Append(indices, Idx(r.value[1])), r.value[2])

\* The faces from face j: Ok([vertexMap, vertices, faces]) or the failure.
RECURSIVE buildFacesFrom(_, _, _, _)
buildFacesFrom(v, data, j, fa) ==
    IF j > Len(data.faces) THEN Ok(fa)
    ELSE LET r == faceIndicesFrom(v, data, data.faces[j].vertices, 1, <<>>,
                                  [vertexMap |-> fa.vertexMap, vertices |-> fa.vertices])
         IN  IF ~r.ok THEN r
             ELSE buildFacesFrom(v, data, j + 1,
                    [vertexMap |-> r.value[2].vertexMap,
                     vertices |-> r.value[2].vertices,
                     faces |-> Append(fa.faces,
                                      createFace(r.value[1], data.faces[j].material))])

\* positions.map(pos => createVertex(pos))
directVertices(positions) ==
    [i \in 1..Len(positions) |-> createVertex(positions[i], None, None)]

buildVertices(v, data) ==
    LET r == buildFacesFrom(v, data, 1,
                            [vertexMap |-> <<>>, vertices |-> <<>>, faces |-> <<>>])
    IN  IF ~r.ok THEN r
        ELSE IF Len(r.value.faces) = 0 /\ Len(data.positions) > 0
        THEN Ok([vertices |-> directVertices(data.positions), faces |-> <<>>])
        ELSE IF Len(r.value.vertices) = 0
        THEN Err(ParseError("No vertices found in OBJ file", 0))
        ELSE Ok([vertices |-> r.value.vertices, faces |-> r.value.faces])

\* Math.min / Math.max over one coordinate of the positions.
minOf(vertices, c) ==
    LET S == {vertices[i].position[c] : i \in 1..Len(vertices)}
    IN  CHOOSE a \in S : \A b \in S : NumLeq(a, b)

maxOf(vertices, c) ==
    LET S == {vertices[i].position[c] : i \in 1..Len(vertices)}
    IN  CHOOSE a \in S : \A b \in S : NumLeq(b, a)

calculateBoundingBox(vertices) ==
    IF Len(vertices) = 0 THEN None
    ELSE Some([min |-> createVec3(minOf(vertices, "x"), minOf(vertices, "y"),
                                  minOf(vertices, "z")),
               max |-> createVec3(maxOf(vertices, "x"), maxOf(vertices, "y"),
                                  maxOf(vertices, "z"))])

buildScene(d) ==
    createScene(<<createMesh("default", d.vertices, d.faces, None)>>, <<>>,
                [format |-> "OBJ", vertexCount |-> Len(d.vertices),
                 faceCount |-> Len(d.faces),
                 boundingBox |-> calculateBoundingBox(d.vertices)])

\* mapErr(validateScene(scene), err => ({message: `Validation error: ...`, line: 0}))
validated(s) ==
    LET r == validateScene(s)
    IN  IF ~r.ok
        THEN Err([message |-> "Validation error", detail |-> r.error.message, line |-> 0])
        ELSE Ok(r.value)

\* parseOBJ after the line loop: vertex building, scene, validation.
finishOBJ(v, data) ==
    LET r == buildVertices(v, data)
    IN  IF ~r.ok THEN r ELSE validated(buildScene(r.value))

parseOBJ(v, lines) ==
    LET r == parseLines(v, lines)
    IN  IF ~r.ok THEN r ELSE finishOBJ(v, r.value)

(***************************************************************************)
(* OBJ encoder                                                             *)
(***************************************************************************)
\* The vertex loop of one mesh, from vertex k.  st carries the emitted lines,
\* the three global counters and the per-vertex records of this mesh.
RECURSIVE emitVertices(_, _, _)
emitVertices(vertices, k, st) ==
    IF k > Len(vertices) THEN st
    ELSE LET vx == vertices[k]
             hasT == vx.texCoord # None
             hasN == vx.normal # None
             l1 == Append(st.lines,
                          Line("v", <<fmt(vx.position.x), fmt(vx.position.y),
                                      fmt(vx.position.z)>>, <<>>))
             l2 == IF hasT
                   THEN Append(l1, Line("vt", <<fmt(vx.texCoord[1].x),
                                                fmt(vx.texCoord[1].y)>>, <<>>))
                   ELSE l1
             l3 == IF hasN
                   THEN Append(l2, Line("vn", <<fmt(vx.normal[1].x), fmt(vx.normal[1].y),
                                                fmt(vx.normal[1].z)>>, <<>>))
                   ELSE l2
             tc == IF hasT THEN st.texCount + 1 ELSE st.texCount
             nc == IF hasN THEN st.normCount + 1 ELSE st.normCount
             rec == [pos |-> st.posCount + 1,
                     tex |-> IF hasT THEN Some(tc) ELSE None,
                     norm |-> IF hasN THEN Some(nc) ELSE None]
         IN  emitVertices(vertices, k + 1,
                          [lines |-> l3, posCount |-> st.posCount + 1, texCount |-> tc,
                           normCount |-> nc, perVert |-> Append(st.perVert, rec)])

\* The first mesh loop, from mesh m: `o name`, then the vertices of the mesh.
RECURSIVE emitMeshes(_, _, _, _)
emitMeshes(meshes, m, st, meshVertexIndices) ==
    IF m > Len(meshes) THEN [lines |-> st.lines, meshVertexIndices |-> meshVertexIndices]
    ELSE LET named == Append(st.lines,
                             Line("o", <<IF meshes[m].name # "" THEN meshes[m].name
                                         ELSE "mesh">>, <<>>))
             after == emitVertices(meshes[m].vertices, 1,
                                   [st EXCEPT !.lines = named, !.perVert = <<>>])
         IN  emitMeshes(meshes, m + 1, after, Append(meshVertexIndices, after.perVert))

\* Mutant: the position is written 0-based.
faceEntryZeroBased(rec) ==
    IF rec.tex # None /\ rec.norm # None
    THEN <<IntToString(rec.pos - 1), IntToString(rec.tex[1]), IntToString(rec.norm[1])>>
    ELSE IF rec.tex # None THEN <<IntToString(rec.pos - 1), IntToString(rec.tex[1])>>
    ELSE IF rec.norm # None THEN <<IntToString(rec.pos - 1), "", IntToString(rec.norm[1])>>
    ELSE <<IntToString(rec.pos - 1)>>

\* One face entry: `p/t/n`, `p/t`, `p//n` or `p`, as its '/'-separated parts.
faceEntry(rec) ==
    IF rec.tex # None /\ rec.norm # None
    THEN <<IntToString(rec.pos), IntToString(rec.tex[1]), IntToString(rec.norm[1])>>
    ELSE IF rec.tex # None THEN <<IntToString(rec.pos), IntToString(rec.tex[1])>>
    ELSE IF rec.norm # None THEN <<IntToString(rec.pos), "", IntToString(rec.norm[1])>>
    ELSE <<IntToString(rec.pos)>>

\* vertIndices[i] is undefined for an index that is no position of the array.
faceThrows(face, vertIndices) ==
    \E k \in 1..Len(face.indices) :
        ~face.indices[k].int \/ at(vertIndices, face.indices[k].v) = None

\* The face loop of one mesh, from face j: Ok(lines) or Err (the caught throw).
RECURSIVE emitFaces(_, _, _, _)
emitFaces(mesh, vertIndices, j, lines) ==
    IF j > Len(mesh.faces) THEN Ok(lines)
    ELSE IF faceThrows(mesh.faces[j], vertIndices)
    THEN Err("Face index out of bounds for mesh")
    ELSE emitFaces(mesh, vertIndices, j + 1,
           Append(lines,
                  Line("f", <<>>,
                       [k \in 1..Len(mesh.faces[j].indices) |->
                          faceEntry(vertIndices[mesh.faces[j].indices[k].v + 1])])))

\* The second mesh loop, from mesh mi: `usemtl` of the mesh, then its faces.
RECURSIVE emitMeshFaces(_, _, _, _)
emitMeshFaces(meshes, meshVertexIndices, mi, lines) ==
    IF mi > Len(meshes) THEN Ok(lines)
    ELSE LET mesh == meshes[mi]
             withMtl == IF mesh.material # None /\ mesh.material[1].name # ""
                        THEN Append(lines, Line("usemtl", <<mesh.material[1].name>>, <<>>))
                        ELSE lines
             r == emitFaces(mesh, meshVertexIndices[mi], 1, withMtl)
         IN  IF ~r.ok THEN r ELSE emitMeshFaces(meshes, meshVertexIndices, mi + 1, r.value)

\* toOBJ: the lines of the text (joined with '\n', plus a final '\n').
toOBJ(s) ==
    LET header == <<Line("#", <<"Exported by freetheprogs toOBJ">>, <<>>),
                    Line("#", <<"format:", s.metadata.format, "->", "OBJ">>, <<>>)>>
        first == emitMeshes(s.meshes, 1,
                            [lines |-> header, posCount |-> 0, texCount |-> 0,
                             normCount |-> 0, perVert |-> <<>>], <<>>)
        r == emitMeshFaces(s.meshes, first.meshVertexIndices, 1, first.lines)
    IN  IF ~r.ok THEN r ELSE Ok(Append(r.value, Line("", <<>>, <<>>)))

(***************************************************************************)
(* Inputs of the OBJ run                                                   *)
(***************************************************************************)
VLines ==
    {Line("v", d, <<>>) : d \in {<<"0", "0", "0">>, <<"1.0", "2", "0">>, <<"Infinity", "0", "0">>,
                                 <<"0", "0", "abc">>, <<"0", "0">>}}

VtLines == {Line("vt", d, <<>>) : d \in {<<"0", "1">>, <<"0">>}}

VnLines == {Line("vn", d, <<>>) : d \in {<<"0", "0", "1">>, <<"0", "Infinity", "0">>, <<"0", "0">>}}

UsemtlLines == {Line("usemtl", d, <<>>) : d \in {<<"a">>, <<"b">>, <<>>}}

FLines ==
    {Line("f", <<>>, r) : r \in
        {<< <<"1">>, <<"2">>, <<"3">> >>,
         << <<"1">>, <<"1", "0">>, <<"2">> >>,
         << <<"1", "1">>, <<"2", "1">>, <<"1", "1">>, <<"2">> >>,
         << <<"1", "", "1">>, <<"2", "", "1">>, <<"1", "", "0">> >>,
         << <<"2", "1", "1">>, <<"1">>, <<"2", "2", "2">> >>,
         << <<"1">>, <<"2">>, <<"5">> >>,
         << <<"0">>, <<"-1">>, <<"2">> >>,
         << <<"1">>, <<"2">> >>,
         << <<"1">>, <<"x">>, <<"2">> >>,
         << <<"1">>, <<"2", "x">>, <<"">> >>}}

OtherLines == {Line("#", <<"comment">>, <<>>), Line("", <<>>, <<>>), Line("o", <<"cube">>, <<>>)}

InputLines == VLines \cup VtLines \cup VnLines \cup UsemtlLines \cup FLines \cup OtherLines

\* The input stays within the bounds of the model.
WithinBounds(a, line) ==
    /\ line.type = "v" => Len(a.positions) < MaxPositions
    /\ line.type = "vt" => Len(a.texCoords) < MaxAttrs
    /\ line.type = "vn" => Len(a.normals) < MaxAttrs
    /\ line.type = "f" => Len(a.faces) < MaxFaces

Pending == [ok |-> FALSE, pending |-> TRUE]

EmptyScene ==
    createScene(<<>>, <<>>, [format |-> "", vertexCount |-> 0, faceCount |-> 0,
                             boundingBox |-> None])

\* The values of the variables of a component whose run has not started.
EmptyDoc == [vprops |-> <<>>, vertices |-> <<>>, fprops |-> <<>>, faces |-> <<>>]

EmptyFile == [input |-> "string", lines |-> <<>>, payload |-> <<>>]

NoRun == [result |-> Pending, decoder |-> "none", offset |-> -1]

EmptyGLTF ==
    [json |-> "object", asset |-> None, buffers |-> <<>>, bufferViews |-> <<>>,
     accessors |-> <<>>, meshes |-> <<>>, materials |-> <<>>]

IdlePLY ==
    /\ plyVariant = "part_002"
    /\ plyPc = "idle"
    /\ plyDoc = EmptyDoc
    /\ plyFile = EmptyFile
    /\ plyRun = NoRun
    /\ plyTwin = NoRun

IdleGLTF ==
    /\ gltf = EmptyGLTF
    /\ gpc = "idle"
    /\ gwork = <<>>
    /\ gbuffers = Pending
    /\ gresult = Pending

IdleResult ==
    /\ items = <<>>
    /\ allPc = "idle"
    /\ collected = Pending

IdleCalls == calls = <<>>

IdleValidate ==
    /\ scene = EmptyScene
    /\ vpc = "idle"
    /\ vresult = Pending
    /\ plyText = Pending

IdleOBJ ==
    /\ variant = Functional
    /\ pc = "idle"
    /\ lineNum = 0
    /\ acc = initialAcc
    /\ result = Pending
    /\ objText = Pending
    /\ reparsed = Pending
    /\ fileV = <<>>
    /\ fileF = <<>>
    /\ fileM = <<>>
    /\ lastNamed = None
    /\ eof = FALSE

(***************************************************************************)
(* The OBJ run: parseOBJ line by line, then toOBJ, then parseOBJ again     *)
(***************************************************************************)
InitOBJ ==
    /\ variant \in Variants
    /\ pc = "lines"
    /\ lineNum = 0
    /\ acc = initialAcc
    /\ result = Pending
    /\ objText = Pending
    /\ reparsed = Pending
    /\ fileV = <<>>
    /\ fileF = <<>>
    /\ fileM = <<>>
    /\ lastNamed = None
    /\ eof = FALSE

\* One iteration of the line loop on the next line of the input.
ReadLine ==
    /\ pc = "lines"
    /\ lineNum < MaxLines
    /\ \E line \in InputLines :
         /\ WithinBounds(acc, line)
         /\ lineNum' = lineNum + 1
         /\ IF parseLine(line)
            THEN UNCHANGED <<acc, pc, result, fileV, fileF, fileM, lastNamed>>
            ELSE LET r == processLine(variant, acc, line, lineNum + 1)
                 IN  IF r.ok
                     THEN /\ acc' = r.value
                          /\ fileV' = IF line.type = "v" THEN Append(fileV, line.data) ELSE fileV
                          /\ fileF' = IF line.type = "f" THEN Append(fileF, line.refs) ELSE fileF
                          /\ fileM' = IF line.type = "f" THEN Append(fileM, lastNamed) ELSE fileM
                          /\ lastNamed' = IF line.type = "usemtl" /\ Len(line.data) > 0
                                          THEN Some(line.data[1]) ELSE lastNamed
                          /\ UNCHANGED <<pc, result>>
                     ELSE /\ result' = r
                          /\ pc' = "done"
                          /\ UNCHANGED <<acc, fileV, fileF, fileM, lastNamed>>
    /\ UNCHANGED <<variant, objText, reparsed, eof>>
    /\ UNCHANGED <<valVars, plyVars, gltfVars, resVars, callVars>>

\* The input ends: vertex building, scene, validation; parseOBJ returns.
EndOfInput ==
    /\ pc = "lines"
    /\ result' = finishOBJ(variant, acc)
    /\ pc' = "done"
    /\ eof' = TRUE
    /\ UNCHANGED <<variant, lineNum, acc, objText, reparsed, fileV, fileF, fileM, lastNamed>>
    /\ UNCHANGED <<valVars, plyVars, gltfVars, resVars, callVars>>

\* The caller re-encodes the parsed scene.
Convert ==
    /\ pc = "done"
    /\ result.ok
    /\ objText' = toOBJ(result.value)
    /\ pc' = "converted"
    /\ UNCHANGED <<variant, lineNum, acc, result, reparsed, fileV, fileF, fileM, lastNamed, eof>>
    /\ UNCHANGED <<valVars, plyVars, gltfVars, resVars, callVars>>

\* The caller parses the re-encoded text.
Reparse ==
    /\ pc = "converted"
    /\ objText.ok
    /\ reparsed' = parseOBJ(variant, objText.value)
    /\ pc' = "reparsed"
    /\ UNCHANGED <<variant, lineNum, acc, result, objText, fileV, fileF, fileM, lastNamed, eof>>
    /\ UNCHANGED <<valVars, plyVars, gltfVars, resVars, callVars>>

(***************************************************************************)
(* The validator run: a caller hands a Scene to validateScene              *)
(***************************************************************************)
SeqsUpTo(S, n) == UNION {[1..k -> S] : k \in 0..n}

Origin == createVec3(Num(0), Num(0), Num(0))

VertexInputs ==
    {createVertex(Origin, None, None),
     createVertex(Origin, Some(createVec3(Num(0), Num(0), Num(1))), None),
     createVertex(createVec3(Num(0), Infinity, Num(0)), None, None),
     createVertex(Origin, Some(createVec3(NaN, Num(0), Num(0))), None)}

\* Index lists: in range for one vertex, in range for two, too short, with a
\* non-integer index (0.5), with a negative index.
FaceInputs ==
    {createFace(i, None) : i \in {<<Idx(0), Idx(0), Idx(0)>>, <<Idx(0), Idx(1), Idx(0)>>,
                                  <<Idx(0), Idx(0)>>,
                                  <<Idx(0), [int |-> FALSE, v |-> 0], Idx(0)>>,
                                  <<Idx(0), Idx(-1), Idx(0)>>}}

MeshNames == <<"a", "b", "c">>

MeshInputs(name) ==
    {createMesh(name, vs, fs, None) : vs \in SeqsUpTo(VertexInputs, MaxMeshVertices),
                                      fs \in SeqsUpTo(FaceInputs, MaxMeshFaces)}

InitValidate ==
    /\ scene = EmptyScene
    /\ vpc = "build"
    /\ vresult = Pending
    /\ plyText = Pending
    /\ variant = Functional
    /\ pc = "idle"
    /\ lineNum = 0
    /\ acc = initialAcc
    /\ result = Pending
    /\ objText = Pending
    /\ reparsed = Pending
    /\ fileV = <<>>
    /\ fileF = <<>>
    /\ fileM = <<>>
    /\ lastNamed = None
    /\ eof = FALSE
    /\ IdlePLY
    /\ IdleGLTF
    /\ IdleResult
    /\ IdleCalls

\* The caller adds a mesh to the scene it assembles; the m-th mesh bears the
\* m-th name.
AddMesh ==
    /\ vpc = "build"
    /\ Len(scene.meshes) < MaxMeshes
    /\ \E mesh \in MeshInputs(MeshNames[Len(scene.meshes) + 1]) :
         scene' = createScene(Append(scene.meshes, mesh), <<>>, scene.metadata)
    /\ UNCHANGED <<vpc, vresult, plyText>>
    /\ UNCHANGED <<objVars, plyVars, gltfVars, resVars, callVars>>

\* The caller completes the scene with its metadata: the counts are the
\* actual totals or one more.
SetMetadata ==
    /\ vpc = "build"
    /\ \E dv \in {0, 1}, df \in {0, 1} :
         scene' = createScene(scene.meshes, <<>>,
                              [format |-> "OBJ",
                               vertexCount |-> sumLengths(scene.meshes, "vertices") + dv,
                               faceCount |-> sumLengths(scene.meshes, "faces") + df,
                               boundingBox |-> None])
    /\ vpc' = "ready"
    /\ UNCHANGED <<vresult, plyText>>
    /\ UNCHANGED <<objVars, plyVars, gltfVars, resVars, callVars>>

Validate ==
    /\ vpc = "ready"
    /\ vresult' = validateScene(scene)
    /\ vpc' = "validated"
    /\ UNCHANGED <<scene, plyText>>
    /\ UNCHANGED <<objVars, plyVars, gltfVars, resVars, callVars>>

NextValidate == AddMesh \/ SetMetadata \/ Validate

SpecValidate == InitValidate /\ [][NextValidate]_vars

Init ==
    /\ InitOBJ
    /\ IdleValidate
    /\ IdlePLY
    /\ IdleGLTF
    /\ IdleResult
    /\ IdleCalls

Next == ReadLine \/ EndOfInput \/ Convert \/ Reparse

Spec == Init /\ [][Next]_vars

(***************************************************************************)
(* Claims about parseOBJ                                                   *)
(***************************************************************************)
\* Every parseOBJ call of the run that has returned.
Returned ==
    (IF pc \in {"done", "converted", "reparsed"} THEN {result} ELSE {})
        \cup (IF pc = "reparsed" THEN {reparsed} ELSE {})

\* The refs of the parsed `f` lines, as <<face, position in the face>>.
RefsOf(faces) ==
    UNION {{<<j, k>> : k \in 1..Len(faces[j].vertices)} : j \in 1..Len(faces)}

\* A parsed face ref names a position that no `v` line of the input defines.
UnknownPosition(ref) == ref.posIndex < 0 \/ ref.posIndex >= Len(acc.positions)

SomeUnknownPosition ==
    \E jk \in RefsOf(acc.faces) : UnknownPosition(acc.faces[jk[1]].vertices[jk[2]])

\* C1: parseOBJ never throws: whatever the input, also one whose `f` line
\* names a position index that is zero, negative or beyond the `v` lines, every
\* call returns a Result (ok or error) and no exception leaves it.
C1_NeverThrows == \A r \in Returned : ~IsThrown(r)

\* The triple (posIndex, texIndex-or-absent, normIndex-or-absent) of a parsed ref.
Triple(ref) == <<ref.posIndex, ref.texIndex, ref.normIndex>>

TriplesOf(faces) == {Triple(faces[jk[1]].vertices[jk[2]]) : jk \in RefsOf(faces)}

\* C2: OBJ deduplication: when parseOBJ succeeds on a file with at least one
\* face, the canonical vertex list has exactly one Vertex per distinct triple
\* referenced by the faces, and two face refs get the same canonical index if
\* and only if their triples are identical (absent differs from present).
C2_Dedup ==
    (pc = "done" /\ result.ok /\ Len(acc.faces) > 0) =>
        LET mesh == result.value.meshes[1]
        IN  /\ Len(mesh.vertices) = Cardinality(TriplesOf(acc.faces))
            /\ \A a \in RefsOf(acc.faces), b \in RefsOf(acc.faces) :
                 (mesh.faces[a[1]].indices[a[2]] = mesh.faces[b[1]].indices[b[2]])
                     <=> (Triple(acc.faces[a[1]].vertices[a[2]])
                            = Triple(acc.faces[b[1]].vertices[b[2]]))

\* C3: every error returned by parseOBJ carries the 1-based number of a line
\* of the input: error.line is between 1 and the number of lines, never 0.
C3_ErrorLine ==
    (pc = "done" /\ ~result.ok /\ ~IsThrown(result)) =>
        (result.error.line >= 1 /\ result.error.line <= lineNum)

FiniteVec3(vec) == vec.x.fin /\ vec.y.fin /\ vec.z.fin

MeshValid(mesh) ==
    /\ Len(mesh.vertices) >= 1
    /\ \A i \in 1..Len(mesh.vertices) :
         /\ FiniteVec3(mesh.vertices[i].position)
         /\ mesh.vertices[i].normal # None => FiniteVec3(mesh.vertices[i].normal[1])
    /\ \A j \in 1..Len(mesh.faces) :
         /\ Len(mesh.faces[j].indices) >= 3
         /\ \A k \in 1..Len(mesh.faces[j].indices) :
              /\ mesh.faces[j].indices[k].int
              /\ mesh.faces[j].indices[k].v >= 0
              /\ mesh.faces[j].indices[k].v < Len(mesh.vertices)

RECURSIVE TotalOf(_, _, _)
TotalOf(meshes, field, m) ==
    IF m = 0 THEN 0 ELSE TotalOf(meshes, field, m - 1) + Len(meshes[m][field])

SceneValid(s) ==
    /\ Len(s.meshes) >= 1
    /\ \A m \in 1..Len(s.meshes) : MeshValid(s.meshes[m])
    /\ s.metadata.vertexCount = TotalOf(s.meshes, "vertices", Len(s.meshes))
    /\ s.metadata.faceCount = TotalOf(s.meshes, "faces", Len(s.meshes))

\* C5: every Scene that parseOBJ returns as ok satisfies the validator's
\* invariants: one mesh with >= 1 vertex, faces of >= 3 indices each in
\* [0, vertexCount), finite positions and normals, metadata counts equal to
\* the mesh's vertex and face counts.
C5_OkSceneIsValid ==
    \A r \in Returned : r.ok => (Len(r.value.meshes) = 1 /\ SceneValid(r.value))

C5_Witness ==
    /\ pc = "done" /\ result.ok
    /\ Len(result.value.meshes[1].faces) = 2
    /\ \E i \in 1..Len(result.value.meshes[1].vertices) :
         result.value.meshes[1].vertices[i].normal # None

\* C6: OBJ round trip: for every Scene S that parseOBJ returns as ok, toOBJ(S)
\* succeeds and parseOBJ(toOBJ(S)) succeeds with the same metadata.vertexCount
\* and metadata.faceCount as S.
C6_RoundTrip ==
    /\ pc \in {"converted", "reparsed"} => objText.ok
    /\ pc = "reparsed" =>
         /\ reparsed.ok
         /\ reparsed.value.metadata.vertexCount = result.value.metadata.vertexCount
         /\ reparsed.value.metadata.faceCount = result.value.metadata.faceCount

C6_Witness ==
    /\ pc = "reparsed" /\ reparsed.ok
    /\ reparsed.value.metadata.faceCount = 2
    /\ reparsed.value.metadata.vertexCount >= 3
    /\ \E i \in 1..Len(result.value.meshes[1].vertices) :
         /\ result.value.meshes[1].vertices[i].texCoord # None
         /\ result.value.meshes[1].vertices[i].normal = None
    /\ \E j \in 1..2 : result.value.meshes[1].faces[j].material # None

\* The position written by the p-th `v` line of the input.
PositionOfLine(p) ==
    createVec3(parseFloat(fileV[p][1]), parseFloat(fileV[p][2]), parseFloat(fileV[p][3]))

\* C7: OBJ face refs are 1-based: when parseOBJ succeeds, the k-th index of
\* each rebuilt face designates a canonical Vertex whose position is that of
\* the p-th `v` line, p being the number written first in the k-th ref of the
\* `f` line; three `v` lines and `f 1 2 3` give 3 vertices and indices [0,1,2].
C7_OneBasedRefs ==
    (pc = "done" /\ result.ok) =>
        LET mesh == result.value.meshes[1]
        IN  /\ Len(mesh.faces) = Len(fileF)
            /\ \A j \in 1..Len(fileF) :
                 /\ Len(mesh.faces[j].indices) = Len(fileF[j])
                 /\ \A k \in 1..Len(fileF[j]) :
                      mesh.vertices[mesh.faces[j].indices[k].v + 1].position
                          = PositionOfLine(parseInt(fileF[j][k][1]).v)
            /\ (fileF = << << <<"1">>, <<"2">>, <<"3">> >> >> /\ Len(fileV) = 3) =>
                 /\ Len(mesh.vertices) = 3
                 /\ mesh.faces[1].indices = <<Idx(0), Idx(1), Idx(2)>>

C7_Witness ==
    /\ pc = "done" /\ result.ok
    /\ fileF = << << <<"1">>, <<"2">>, <<"3">> >> >>
    /\ PositionOfLine(1) # PositionOfLine(2)
    /\ PositionOfLine(2) # PositionOfLine(3)

\* C8: `usemtl` ordering: in a successfully parsed OBJ each face carries the
\* name given by the most recent `usemtl name` line before its `f` line, and no
\* material when none precedes it; a `usemtl` line never changes the material
\* of the faces parsed before it.
C8_UsemtlOrdering ==
    (pc = "done" /\ result.ok) =>
        \A j \in 1..Len(fileM) : result.value.meshes[1].faces[j].material = fileM[j]

(***************************************************************************)
(* Claims about validateScene                                              *)
(***************************************************************************)
\* C9: validateScene(S) succeeds if and only if S satisfies all invariants of
\* the validator: >= 1 mesh, every mesh >= 1 vertex, finite positions and
\* present normals, every face >= 3 integer indices in [0, vertexCount) of its
\* mesh, metadata counts equal to the sums over the meshes.
C9_ValidIffInvariants ==
    vpc = "validated" => (vresult.ok <=> SceneValid(scene))

C9_Witness ==
    /\ vpc = "validated" /\ vresult.ok
    /\ Len(scene.meshes) = 2
    /\ Len(scene.meshes[2].faces) = 1
    /\ scene.meshes[1].vertices[1].normal # None

\* The violations of the invariants, each with the code and path of its error.
VertexBad(vx) == ~FiniteVec3(vx.position) \/ (vx.normal # None /\ ~FiniteVec3(vx.normal[1]))

FaceBad(face, vertexCount) ==
    \/ Len(face.indices) < 3
    \/ \E k \in 1..Len(face.indices) :
         ~face.indices[k].int \/ face.indices[k].v < 0 \/ face.indices[k].v >= vertexCount

BadVertices(mesh) == {i \in 1..Len(mesh.vertices) : VertexBad(mesh.vertices[i])}

BadFaces(mesh) == {j \in 1..Len(mesh.faces) : FaceBad(mesh.faces[j], Len(mesh.vertices))}

BadMeshes(s) == {m \in 1..Len(s.meshes) : ~MeshValid(s.meshes[m])}

Least(S) == CHOOSE x \in S : \A y \in S : x <= y

\* The error of the first violation of a mesh that has one.
FirstMeshViolation(mesh) ==
    IF Len(mesh.vertices) = 0
    THEN [code |-> "EMPTY_MESH", path |-> Some(Path("mesh", mesh.name, "", -1))]
    ELSE IF BadVertices(mesh) # {}
    THEN [code |-> "INVALID_NUMBER",
          path |-> Some(Path("mesh", mesh.name, "vertices", Least(BadVertices(mesh)) - 1))]
    ELSE [code |-> IF Len(mesh.faces[Least(BadFaces(mesh))].indices) < 3
                   THEN "INVALID_FACE_SIZE" ELSE "INDEX_OUT_OF_BOUNDS",
          path |-> Some(Path("mesh", mesh.name, "faces", Least(BadFaces(mesh)) - 1))]

\* The error of the first violation of an invalid scene, in the order
\* empty scene, meshes in list order, metadata.vertexCount, metadata.faceCount.
FirstViolation(s) ==
    IF Len(s.meshes) = 0 THEN [code |-> "EMPTY_SCENE", path |-> None]
    ELSE IF BadMeshes(s) # {} THEN FirstMeshViolation(s.meshes[Least(BadMeshes(s))])
    ELSE IF s.metadata.vertexCount # TotalOf(s.meshes, "vertices", Len(s.meshes))
    THEN [code |-> "METADATA_MISMATCH",
          path |-> Some(Path("scene", "", "metadata.vertexCount", -1))]
    ELSE [code |-> "METADATA_MISMATCH",
          path |-> Some(Path("scene", "", "metadata.faceCount", -1))]

\* The number of distinct invariants a scene violates at once.
ViolationCount(s) ==
    Cardinality(BadMeshes(s))
      + (IF s.metadata.vertexCount # TotalOf(s.meshes, "vertices", Len(s.meshes)) THEN 1 ELSE 0)
      + (IF s.metadata.faceCount # TotalOf(s.meshes, "faces", Len(s.meshes)) THEN 1 ELSE 0)

PlyLoop == "ply.ts"

PlyFold == "part_002"

PlyVariants == {PlyLoop, PlyFold}

\* line.split(/\s+/) of a trimmed line
split(line) == IF line = <<>> THEN <<"">> ELSE line

startsWith(line, word) == line # <<>> /\ line[1] = word

\* arr.slice(start, end) on integers, with JavaScript's negative offsets.
slice(arr, start, end) ==
    LET n == Len(arr)
        from == IF start < 0 THEN (IF n + start < 0 THEN 0 ELSE n + start)
                ELSE (IF start > n THEN n ELSE start)
        to == IF end < 0 THEN (IF n + end < 0 THEN 0 ELSE n + end)
              ELSE (IF end > n THEN n ELSE end)
    IN  IF from >= to THEN <<>> ELSE SubSeq(arr, from + 1, to)

takeArray(count, arr) == slice(arr, 0, count)

dropArray(count, arr) == slice(arr, count, Len(arr))

PlyFormats == {"ascii", "binary_little_endian", "binary_big_endian"}

parseFormat(line, lineNumber) ==
    LET parts == split(line)
    IN  IF Len(parts) < 3 THEN Err(ParseError("Invalid format line", lineNumber))
        ELSE IF parts[2] \notin PlyFormats
        THEN Err([ParseError("Unsupported format", lineNumber) EXCEPT !.detail = parts[2]])
        ELSE Ok([format |-> parts[2], version |-> parts[3]])

parseElement(line, lineNumber) ==
    LET parts == split(line)
    IN  IF Len(parts) < 3 THEN Err(ParseError("Invalid element line", lineNumber))
        ELSE IF parseInt(parts[3]).nan
        THEN Err(ParseError("Invalid element count", lineNumber))
        ELSE Ok([name |-> parts[2], count |-> parseInt(parts[3]).v, properties |-> <<>>])

\* ply.ts keeps the last token of the line; the rewrite keeps name, type and,
\* for a list, the type of its count.
parseProperty(v, line, lineNumber) ==
    LET parts == split(line)
    IN  IF v = PlyLoop
        THEN IF Len(parts) < 2 THEN Err(ParseError("Invalid property line", lineNumber))
             ELSE Ok(parts[Len(parts)])
        ELSE IF Len(parts) < 3 THEN Err(ParseError("Invalid property line", lineNumber))
        ELSE IF parts[2] = "list"
        THEN IF Len(parts) < 5
             THEN Err(ParseError("Invalid list property line", lineNumber))
             ELSE Ok([name |-> parts[5], type |-> parts[4], isList |-> TRUE,
                      listType |-> parts[3]])
        ELSE Ok([name |-> parts[3], type |-> parts[2], isList |-> FALSE, listType |-> ""])

propName(v, prop) == IF v = PlyLoop THEN prop ELSE prop.name

addPropertyToElement(elem, property) ==
    [elem EXCEPT !.properties = Append(@, property)]

\* elements[element.name] = element
setElement(elements, element) == (element.name :> element) @@ elements

initialHeaderState ==
    [format |-> "ascii", version |-> "1.0", elements |-> <<>>, currentElement |-> None]

\* One header line other than `end_header`: the body of the loop of ply.ts,
\* processHeaderLine of the rewrite.
processHeaderLine(v, st, line, lineNumber) ==
    IF line = <<>> \/ startsWith(line, "comment") THEN Ok(st)
    ELSE IF startsWith(line, "format")
    THEN pipe(parseFormat(line, lineNumber), LAMBDA r :
             IF ~r.ok THEN r
             ELSE Ok([st EXCEPT !.format = r.value.format, !.version = r.value.version]))
    ELSE IF startsWith(line, "element")
    THEN pipe(parseElement(line, lineNumber), LAMBDA r :
             IF ~r.ok THEN r
             ELSE Ok([st EXCEPT !.elements = setElement(@, r.value),
                                !.currentElement = Some(r.value)]))
    ELSE IF startsWith(line, "property")
    THEN IF st.currentElement = None
         THEN Err(ParseError("Property without element", lineNumber))
         ELSE pipe(parseProperty(v, line, lineNumber), LAMBDA r :
                  IF ~r.ok THEN r
                  ELSE pipe(addPropertyToElement(st.currentElement[1], r.value),
                            LAMBDA updatedElement :
                                Ok([st EXCEPT !.elements = setElement(@, updatedElement),
                                              !.currentElement = Some(updatedElement)])))
    ELSE Ok(st)

headerOf(st) == [format |-> st.format, version |-> st.version, elements |-> st.elements]

\* ply.ts: `for (let i = 1; i < lines.length; i++)`, at the line of index k - 1.
RECURSIVE headerLoop(_, _, _)
headerLoop(lines, k, st) ==
    IF k > Len(lines) THEN Err(ParseError("Missing end_header", Len(lines)))
    ELSE IF lines[k] = <<"end_header">>
    THEN Ok([header |-> headerOf(st), dataStartIndex |-> k])
    ELSE pipe(processHeaderLine(PlyLoop, st, lines[k], k), LAMBDA r :
             IF ~r.ok THEN r ELSE headerLoop(lines, k + 1, r.value))

\* lines.findIndex(line => line.trim() === "end_header") + 1; 0 when absent.
findEndHeader(lines) ==
    IF \E k \in 1..Len(lines) : lines[k] = <<"end_header">>
    THEN CHOOSE k \in 1..Len(lines) :
            /\ lines[k] = <<"end_header">>
            /\ \A j \in 1..(k - 1) : lines[j] # <<"end_header">>
    ELSE 0

\* The rewrite: headerLines.reduce(processHeaderLine) over lines 2..last.
RECURSIVE headerFold(_, _, _, _)
headerFold(lines, k, last, state) ==
    IF k > last THEN state
    ELSE headerFold(lines, k + 1, last,
                    IF ~state.ok THEN state
                    ELSE processHeaderLine(PlyFold, state.value, lines[k], k))

parseHeader(v, lines) ==
    IF Len(lines) = 0 \/ lines[1] # <<"ply">>
    THEN Err(ParseError("Missing 'ply' header", 1))
    ELSE IF v = PlyLoop THEN headerLoop(lines, 2, initialHeaderState)
    ELSE pipe(findEndHeader(lines), LAMBDA e :
             IF e = 0 THEN Err(ParseError("Missing end_header", Len(lines)))
             ELSE pipe(headerFold(lines, 2, e - 1, Ok(initialHeaderState)),
                       LAMBDA finalState :
                           IF ~finalState.ok THEN finalState
                           ELSE Ok([header |-> headerOf(finalState.value),
                                    dataStartIndex |-> e])))

(***************************************************************************)
(* PLY ASCII body                                                          *)
(***************************************************************************)
\* The vertex data so far; an absent vector is completed from zeros.
setComponent(data, name, value) ==
    LET pos == IF data.position = None THEN Origin ELSE data.position[1]
        nrm == IF data.normal = None THEN Origin ELSE data.normal[1]
        tex == IF data.texCoord = None THEN createVec2(Num(0), Num(0)) ELSE data.texCoord[1]
    IN  IF name = "x" THEN [data EXCEPT !.position = Some(createVec3(value, pos.y, pos.z))]
        ELSE IF name = "y" THEN [data EXCEPT !.position = Some(createVec3(pos.x, value, pos.z))]
        ELSE IF name = "z" THEN [data EXCEPT !.position = Some(createVec3(pos.x, pos.y, value))]
        ELSE IF name = "nx" THEN [data EXCEPT !.normal = Some(createVec3(value, nrm.y, nrm.z))]
        ELSE IF name = "ny" THEN [data EXCEPT !.normal = Some(createVec3(nrm.x, value, nrm.z))]
        ELSE IF name = "nz" THEN [data EXCEPT !.normal = Some(createVec3(nrm.x, nrm.y, value))]
        ELSE IF name \in {"s", "u", "texture_u"}
        THEN [data EXCEPT !.texCoord = Some(createVec2(value, tex.y))]
        ELSE IF name \in {"t", "v", "texture_v"}
        THEN [data EXCEPT !.texCoord = Some(createVec2(tex.x, value))]
        ELSE data

\* ply.ts: `for (let i = 0; i < properties.length; i++)`; a missing value is
\* undefined, which isNaN rejects.
RECURSIVE vertexPropertiesLoop(_, _, _, _)
vertexPropertiesLoop(values, properties, i, data) ==
    IF i > Len(properties)
    THEN IF data.position = None
         THEN Err(ParseError("Missing vertex position data", -1))
         ELSE Ok(data)
    ELSE IF i > Len(values) \/ isNaN(values[i])
    THEN Err([ParseError("Invalid vertex property value", -1) EXCEPT !.detail = properties[i]])
    ELSE vertexPropertiesLoop(values, properties, i + 1,
                              setComponent(data, properties[i], values[i]))

\* The rewrite: zipArray(properties, values).reduce(...) from a position at
\* the origin, then the test of the position against the origin.
RECURSIVE vertexPropertiesFold(_, _, _, _)
vertexPropertiesFold(values, properties, i, data) ==
    IF i > Len(properties) \/ i > Len(values)
    THEN IF data.position[1] = Origin
         THEN Err(ParseError("Missing vertex position data", -1))
         ELSE Ok(data)
    ELSE IF isNaN(values[i])
    THEN Err([ParseError("Invalid vertex property value", -1)
                 EXCEPT !.detail = properties[i].name])
    ELSE vertexPropertiesFold(values, properties, i + 1,
                              setComponent(data, properties[i].name, values[i]))

parseAsciiVertexProperties(v, values, properties) ==
    IF v = PlyLoop
    THEN vertexPropertiesLoop(values, properties, 1,
                              [position |-> None, normal |-> None, texCoord |-> None])
    ELSE vertexPropertiesFold(values, properties, 1,
                              [position |-> Some(Origin), normal |-> None, texCoord |-> None])

\* line.split(/\s+/).map(parseFloat)
floats(line) == [j \in 1..Len(split(line)) |-> parseFloat(split(line)[j])]

parseAsciiVertexLine(v, properties, line) ==
    pipe(parseAsciiVertexProperties(v, floats(line), properties), LAMBDA r :
        IF ~r.ok THEN r
        ELSE Ok(createVertex(r.value.position[1], r.value.normal, r.value.texCoord)))

\* n | 0
toInt32(x) == IF x.fin THEN x.v ELSE 0

\* The indices of a face line: the values after the count.
faceIndices(kept) == [j \in 1..Len(kept) |-> Idx(toInt32(kept[j]))]

\* The face of a line; lineNumber is the `line` of the error (-1 in the rewrite).
parseAsciiFaceLine(line, lineNumber) ==
    pipe(floats(line), LAMBDA parts :
        pipe(parts[1], LAMBDA vertexCount :
            IF isNaN(vertexCount) \/ (vertexCount.fin /\ vertexCount.v < 3)
            THEN Err(ParseError("Invalid face vertex count", lineNumber))
            ELSE Ok(createFace(faceIndices(slice(parts, 1,
                                                 IF vertexCount.fin THEN 1 + vertexCount.v
                                                 ELSE Len(parts))),
                               None))))

\* ply.ts: the vertex loop, i iterations done, at lines[lineIndex].
RECURSIVE asciiVertexLoop(_, _, _, _, _)
asciiVertexLoop(lines, elem, i, lineIndex, vertices) ==
    IF i >= elem.count THEN Ok([vertices |-> vertices, lineIndex |-> lineIndex])
    ELSE IF at(lines, lineIndex) \in {None, Some(<<>>)}
    THEN Err(ParseError("Unexpected end of file in vertex list", lineIndex + 1))
    ELSE pipe(parseAsciiVertexLine(PlyLoop, elem.properties, lines[lineIndex + 1]),
              LAMBDA r :
                  IF ~r.ok THEN r
                  ELSE asciiVertexLoop(lines, elem, i + 1, lineIndex + 1,
                                       Append(vertices, r.value)))

\* ply.ts: the face loop.
RECURSIVE asciiFaceLoop(_, _, _, _, _)
asciiFaceLoop(lines, elem, i, lineIndex, faces) ==
    IF i >= elem.count THEN Ok(faces)
    ELSE IF at(lines, lineIndex) \in {None, Some(<<>>)}
    THEN Err(ParseError("Unexpected end of file in face list", lineIndex + 1))
    ELSE pipe(parseAsciiFaceLine(lines[lineIndex + 1], lineIndex + 1), LAMBDA r :
             IF ~r.ok THEN r
             ELSE asciiFaceLoop(lines, elem, i + 1, lineIndex + 1, Append(faces, r.value)))

\* ply.ts: the vertex loop, then the face loop from the line it stopped at.
asciiBodyLoop(lines, header, startIndex) ==
    pipe(asciiVertexLoop(lines, header.elements["vertex"], 0, startIndex, <<>>),
         LAMBDA vs :
             IF ~vs.ok THEN vs
             ELSE IF "face" \notin DOMAIN header.elements
             THEN Ok([vertices |-> vs.value.vertices, faces |-> <<>>])
             ELSE pipe(asciiFaceLoop(lines, header.elements["face"], 0,
                                     vs.value.lineIndex, <<>>),
                       LAMBDA fs :
                           IF ~fs.ok THEN fs
                           ELSE Ok([vertices |-> vs.value.vertices, faces |-> fs.value])))

\* The rewrite: all(vertexLines.map(...)), then all(faceLines.map(...)).
asciiBodyFold(bodyLines, vertexElem, header) ==
    pipe(pipe(takeArray(vertexElem.count, bodyLines), LAMBDA vertexLines :
                  all([i \in 1..Len(vertexLines) |->
                         parseAsciiVertexLine(PlyFold, vertexElem.properties,
                                              vertexLines[i])])),
         LAMBDA vs :
             IF ~vs.ok THEN vs
             ELSE IF "face" \notin DOMAIN header.elements
             THEN Ok([vertices |-> vs.value, faces |-> <<>>])
             ELSE pipe(takeArray(header.elements["face"].count,
                                 dropArray(vertexElem.count, bodyLines)),
                       LAMBDA faceLines :
                           pipe(all([i \in 1..Len(faceLines) |->
                                       parseAsciiFaceLine(faceLines[i], -1)]),
                                LAMBDA fs :
                                    IF ~fs.ok THEN fs
                                    ELSE Ok([vertices |-> vs.value, faces |-> fs.value]))))

parseAsciiBody(v, lines, header, startIndex) ==
    IF "vertex" \notin DOMAIN header.elements
    THEN Err(ParseError("Missing vertex element", startIndex))
    ELSE IF v = PlyLoop THEN asciiBodyLoop(lines, header, startIndex)
    ELSE asciiBodyFold(dropArray(startIndex, lines), header.elements["vertex"], header)

(***************************************************************************)
(* PLY binary body: the byte cursor                                        *)
(***************************************************************************)
\* Width in bytes of a scalar type; 0 for a type the readers do not know.
sizes(type) ==
    IF type \in {"char", "uchar"} THEN 1
    ELSE IF type \in {"short", "ushort"} THEN 2
    ELSE IF type \in {"int", "uint", "float"} THEN 4
    ELSE IF type = "double" THEN 8
    ELSE 0

\* A payload is a sequence of bytes, each an integer in 0..255.  The floats
\* the model writes are 0, 1 and 2, with their IEEE 754 bytes; the integers
\* are in 0..255.
pow256(n) == IF n = 0 THEN 1 ELSE IF n = 1 THEN 256 ELSE IF n = 2 THEN 65536 ELSE 16777216

reverse(s) == [j \in 1..Len(s) |-> s[Len(s) + 1 - j]]

\* The bytes of the number n in a scalar type, most significant first.
bigEndianBytes(n, type) ==
    IF type = "float"
    THEN IF n = 0 THEN <<0, 0, 0, 0>> ELSE IF n = 1 THEN <<63, 128, 0, 0>> ELSE <<64, 0, 0, 0>>
    ELSE IF type = "double"
    THEN IF n = 0 THEN <<0, 0, 0, 0, 0, 0, 0, 0>>
         ELSE IF n = 1 THEN <<63, 240, 0, 0, 0, 0, 0, 0>>
         ELSE <<64, 0, 0, 0, 0, 0, 0, 0>>
    ELSE [j \in 1..sizes(type) |-> IF j = sizes(type) THEN n ELSE 0]

\* The bytes of a value written with a scalar type and an endianness.
encode(n, type, littleEndian) ==
    IF littleEndian THEN reverse(bigEndianBytes(n, type)) ELSE bigEndianBytes(n, type)

\* A float read from bytes that are those of none of 0, 1, 2: some other
\* finite number (no byte the model writes gives an exponent of all ones).
OtherFloat == Num(9)

\* The integer of up to four bytes, most significant first; two's
\* complement for the signed types.
RECURSIVE unsignedOf(_, _)
unsignedOf(bytes, j) ==
    IF j > Len(bytes) THEN 0
    ELSE bytes[j] * pow256(Len(bytes) - j) + unsignedOf(bytes, j + 1)

integerOf(bytes, type) ==
    IF type \in {"char", "short", "int"} /\ bytes[1] >= 128
    THEN (bytes[1] - 256) * pow256(Len(bytes) - 1) + unsignedOf(bytes, 2)
    ELSE unsignedOf(bytes, 1)

\* dataView.getXxx(offset, littleEndian) on the bytes at the cursor.
decode(bytes, type, littleEndian) ==
    LET be == IF littleEndian THEN reverse(bytes) ELSE bytes
    IN  IF type \in {"float", "double"}
        THEN IF be = bigEndianBytes(0, type) THEN Num(0)
             ELSE IF be = bigEndianBytes(1, type) THEN Num(1)
             ELSE IF be = bigEndianBytes(2, type) THEN Num(2)
             ELSE OtherFloat
        ELSE Num(integerOf(be, type))

\* One read of the cursor at `off`: the Result and the cursor after it.
read(v, data, off, type, littleEndian) ==
    IF sizes(type) = 0
    THEN [r |-> Err([ParseError("Unsupported data type", -1) EXCEPT !.detail = type]),
          off |-> off]
    ELSE IF off + sizes(type) > Len(data)
    THEN [r |-> Err(ParseError(IF v = PlyLoop THEN "Unexpected end of file in binary data"
                               ELSE "Unexpected EOF", -1)),
          off |-> off]
    ELSE [r |-> Ok(decode(SubSeq(data, off + 1, off + sizes(type)), type, littleEndian)),
          off |-> off + sizes(type)]

skip(data, off, type) ==
    IF sizes(type) = 0
    THEN [r |-> Err([ParseError("Unknown type size", -1) EXCEPT !.detail = type]), off |-> off]
    ELSE IF off + sizes(type) > Len(data)
    THEN [r |-> Err(ParseError("Unexpected EOF while skipping", -1)), off |-> off]
    ELSE [r |-> Ok(<<>>), off |-> off + sizes(type)]

\* n reads of one type in a row: the values, or the first failure.
RECURSIVE readMany(_, _, _, _, _, _, _)
readMany(v, data, littleEndian, type, n, off, values) ==
    IF n <= 0 THEN [r |-> Ok(values), off |-> off]
    ELSE pipe(read(v, data, off, type, littleEndian), LAMBDA rd :
             IF ~rd.r.ok THEN rd
             ELSE readMany(v, data, littleEndian, type, n - 1, rd.off,
                           Append(values, rd.r.value)))

toIndices(values) == [j \in 1..Len(values) |-> Idx(values[j].v)]

\* x || 0
orZero(x) == IF isNaN(x) THEN Num(0) ELSE x

\* ply.ts: position = createVec3(value, position?.y || 0, position?.z || 0)
setPosition(position, name, value) ==
    pipe(IF position = None THEN Origin ELSE position[1], LAMBDA pos :
        IF name = "x" THEN Some(createVec3(value, orZero(pos.y), orZero(pos.z)))
        ELSE IF name = "y" THEN Some(createVec3(orZero(pos.x), value, orZero(pos.z)))
        ELSE Some(createVec3(orZero(pos.x), orZero(pos.y), value)))

\* ply.ts: `for (const prop of vertexElem.properties)`, every property read
\* as a float32.
RECURSIVE binaryPropsLoop(_, _, _, _, _, _)
binaryPropsLoop(data, littleEndian, properties, j, off, position) ==
    IF j > Len(properties) THEN [r |-> Ok(position), off |-> off]
    ELSE pipe(read(PlyLoop, data, off, "float", littleEndian), LAMBDA rd :
             IF ~rd.r.ok THEN rd
             ELSE binaryPropsLoop(data, littleEndian, properties, j + 1, rd.off,
                                  IF properties[j] \in {"x", "y", "z"}
                                  THEN setPosition(position, properties[j], rd.r.value)
                                  ELSE position))

RECURSIVE binaryVertexLoop(_, _, _, _, _, _)
binaryVertexLoop(data, littleEndian, elem, i, off, vertices) ==
    IF i >= elem.count THEN [r |-> Ok(vertices), off |-> off]
    ELSE pipe(binaryPropsLoop(data, littleEndian, elem.properties, 1, off, None),
              LAMBDA p :
                  IF ~p.r.ok THEN p
                  ELSE IF p.r.value = None
                  THEN [r |-> Err(ParseError("Missing vertex position data", -1)),
                        off |-> p.off]
                  ELSE binaryVertexLoop(data, littleEndian, elem, i + 1, p.off,
                                        Append(vertices,
                                               createVertex(p.r.value[1], None, None))))

\* ply.ts: `for (const prop of faceElem.properties)`: the list is a uint8
\* count and int32 indices, a colour is one uint8, anything else is not read.
RECURSIVE facePropsLoop(_, _, _, _, _, _)
facePropsLoop(data, littleEndian, properties, j, off, indices) ==
    IF j > Len(properties) THEN [r |-> Ok(indices), off |-> off]
    ELSE IF properties[j] \in {"vertex_indices", "vertex_index"}
    THEN pipe(read(PlyLoop, data, off, "uchar", littleEndian), LAMBDA c :
             IF ~c.r.ok THEN c
             ELSE pipe(readMany(PlyLoop, data, littleEndian, "int", c.r.value.v,
                                c.off, <<>>),
                       LAMBDA xs :
                           IF ~xs.r.ok THEN xs
                           ELSE facePropsLoop(data, littleEndian, properties, j + 1,
                                              xs.off, indices \o xs.r.value)))
    ELSE IF properties[j] \in {"red", "green", "blue", "alpha"}
    THEN pipe(read(PlyLoop, data, off, "uchar", littleEndian), LAMBDA s :
             IF ~s.r.ok THEN s
             ELSE facePropsLoop(data, littleEndian, properties, j + 1, s.off, indices))
    ELSE facePropsLoop(data, littleEndian, properties, j + 1, off, indices)

RECURSIVE binaryFaceLoop(_, _, _, _, _, _)
binaryFaceLoop(data, littleEndian, elem, i, off, faces) ==
    IF i >= elem.count THEN [r |-> Ok(faces), off |-> off]
    ELSE pipe(facePropsLoop(data, littleEndian, elem.properties, 1, off, <<>>),
              LAMBDA fp :
                  IF ~fp.r.ok THEN fp
                  ELSE binaryFaceLoop(data, littleEndian, elem, i + 1, fp.off,
                                      IF Len(fp.r.value) > 0
                                      THEN Append(faces,
                                                  createFace(toIndices(fp.r.value), None))
                                      ELSE faces))

\* The rewrite: properties.reduce over the typed reads of one vertex.
RECURSIVE binaryVertexFold(_, _, _, _, _, _)
binaryVertexFold(data, littleEndian, properties, j, off, accData) ==
    IF j > Len(properties) \/ ~accData.ok THEN [r |-> accData, off |-> off]
    ELSE pipe(read(PlyFold, data, off, properties[j].type, littleEndian), LAMBDA rd :
             binaryVertexFold(data, littleEndian, properties, j + 1, rd.off,
                              IF ~rd.r.ok THEN rd.r
                              ELSE Ok(setComponent(accData.value, properties[j].name,
                                                   rd.r.value))))

parseBinaryVertex(data, littleEndian, properties, off) ==
    pipe(binaryVertexFold(data, littleEndian, properties, 1, off,
                          Ok([position |-> Some(Origin), normal |-> None,
                              texCoord |-> None])),
         LAMBDA f :
             [r |-> IF ~f.r.ok THEN f.r
                    ELSE Ok(createVertex(f.r.value.position[1], f.r.value.normal,
                                         f.r.value.texCoord)),
              off |-> f.off])

\* The rewrite: properties.reduce over one face record.
RECURSIVE binaryFaceFold(_, _, _, _, _, _)
binaryFaceFold(data, littleEndian, properties, j, off, accIndices) ==
    IF j > Len(properties) \/ ~accIndices.ok THEN [r |-> accIndices, off |-> off]
    ELSE IF properties[j].isList /\ properties[j].name \in {"vertex_indices", "vertex_index"}
    THEN pipe(read(PlyFold, data, off, properties[j].listType, littleEndian), LAMBDA c :
             IF ~c.r.ok
             THEN binaryFaceFold(data, littleEndian, properties, j + 1, c.off, c.r)
             ELSE pipe(readMany(PlyFold, data, littleEndian, properties[j].type,
                                c.r.value.v, c.off, <<>>),
                       LAMBDA xs :
                           binaryFaceFold(data, littleEndian, properties, j + 1, xs.off,
                                          IF ~xs.r.ok THEN xs.r
                                          ELSE Ok(accIndices.value \o xs.r.value))))
    ELSE pipe(skip(data, off, properties[j].type), LAMBDA s :
             binaryFaceFold(data, littleEndian, properties, j + 1, s.off,
                            IF ~s.r.ok THEN s.r ELSE accIndices))

parseBinaryFace(data, littleEndian, properties, off) ==
    pipe(binaryFaceFold(data, littleEndian, properties, 1, off, Ok(<<>>)), LAMBDA f :
        [r |-> IF ~f.r.ok THEN f.r ELSE Ok(createFace(toIndices(f.r.value), None)),
         off |-> f.off])

\* The rewrite: Array.from({ length: n }, () => parse(reader, properties)):
\* every record is attempted, the cursor moving on past a failed one.
RECURSIVE binaryRecords(_, _, _, _, _, _, _)
binaryRecords(kind, data, littleEndian, properties, n, off, results) ==
    IF n <= 0 THEN [results |-> results, off |-> off]
    ELSE pipe(IF kind = "vertex"
              THEN parseBinaryVertex(data, littleEndian, properties, off)
              ELSE parseBinaryFace(data, littleEndian, properties, off),
              LAMBDA one :
                  binaryRecords(kind, data, littleEndian, properties, n - 1, one.off,
                                Append(results, one.r)))

\* ply.ts: the vertex loop, then the face loop from the cursor it stopped at.
binaryBodyLoop(data, littleEndian, header) ==
    pipe(binaryVertexLoop(data, littleEndian, header.elements["vertex"], 0, 0, <<>>),
         LAMBDA vs :
             IF ~vs.r.ok THEN vs
             ELSE IF "face" \notin DOMAIN header.elements
             THEN [r |-> Ok([vertices |-> vs.r.value, faces |-> <<>>]), off |-> vs.off]
             ELSE pipe(binaryFaceLoop(data, littleEndian, header.elements["face"], 0,
                                      vs.off, <<>>),
                       LAMBDA fs :
                           [r |-> IF ~fs.r.ok THEN fs.r
                                  ELSE Ok([vertices |-> vs.r.value,
                                           faces |-> fs.r.value]),
                            off |-> fs.off]))

\* The rewrite, its second half: the face records read from the cursor the
\* vertex records left, given the Result vr of the vertices.
binaryFacesFold(data, littleEndian, faceElem, off, vr) ==
    pipe(binaryRecords("face", data, littleEndian, faceElem.properties, faceElem.count,
                       off, <<>>),
         LAMBDA fs :
             pipe(all(fs.results), LAMBDA fr :
                 [r |-> IF ~fr.ok THEN fr
                        ELSE Ok([vertices |-> vr.value, faces |-> fr.value]),
                  off |-> fs.off]))

\* The rewrite: all the vertex records, then all the face records.
binaryBodyFold(data, littleEndian, vertexElem, header) ==
    pipe(binaryRecords("vertex", data, littleEndian, vertexElem.properties,
                       vertexElem.count, 0, <<>>),
         LAMBDA vs :
             pipe(all(vs.results), LAMBDA vr :
                 IF ~vr.ok THEN [r |-> vr, off |-> vs.off]
                 ELSE IF "face" \notin DOMAIN header.elements
                 THEN [r |-> Ok([vertices |-> vr.value, faces |-> <<>>]), off |-> vs.off]
                 ELSE binaryFacesFold(data, littleEndian, header.elements["face"],
                                      vs.off, vr)))

\* The body of a binary file: the Result and the cursor at the end.
parseBinaryBodyFromArrayBuffer(v, data, header) ==
    IF "vertex" \notin DOMAIN header.elements
    THEN [r |-> Err(ParseError("Missing vertex element", -1)), off |-> 0]
    ELSE IF v = PlyLoop
    THEN binaryBodyLoop(data, header.format = "binary_little_endian", header)
    ELSE binaryBodyFold(data, header.format = "binary_little_endian",
                        header.elements["vertex"], header)

(***************************************************************************)
(* parsePLY                                                                *)
(***************************************************************************)
createSceneFromMeshData(vertices, faces) ==
    createScene(<<createMesh("default", vertices, faces, None)>>, <<>>,
                [format |-> "PLY", vertexCount |-> Len(vertices),
                 faceCount |-> Len(faces),
                 boundingBox |-> calculateBoundingBox(vertices)])

\* The text of a file split at its line breaks: its lines and, when a binary
\* payload follows the last line break, the payload as one more piece.
textLines(file) ==
    file.lines \o (IF file.payload = <<>> THEN <<>> ELSE << <<"?">> >>)

\* headerText.includes('format binary_')
includesFormatBinary(lines) ==
    \E k \in 1..Len(lines) : \E j \in 1..(Len(lines[k]) - 1) :
        /\ lines[k][j] = "format"
        /\ lines[k][j + 1] \in {"binary_little_endian", "binary_big_endian", "binary_x"}

\* The bytes of the lines from the k-th on: one byte `x` per token, then the
\* line break.
RECURSIVE textOf(_, _)
textOf(lines, k) ==
    IF k > Len(lines) THEN <<>>
    ELSE [j \in 1..(Len(lines[k]) + 1) |-> IF j > Len(lines[k]) THEN 10 ELSE 120]
            \o textOf(lines, k + 1)

\* headerText.indexOf('end_header'): the first line holding the token, 0 if none.
indexOfEndHeader(lines) ==
    IF \E k \in 1..Len(lines) : \E j \in 1..Len(lines[k]) : lines[k][j] = "end_header"
    THEN CHOOSE k \in 1..Len(lines) :
            /\ \E j \in 1..Len(lines[k]) : lines[k][j] = "end_header"
            /\ \A i \in 1..(k - 1) : \A j \in 1..Len(lines[i]) : lines[i][j] # "end_header"
    ELSE 0

\* buffer.slice(binaryStart): what follows the first `end_header` token and
\* its line break.
binaryData(file) ==
    LET k == indexOfEndHeader(file.lines)
        j == CHOOSE j \in 1..Len(file.lines[k]) :
                /\ file.lines[k][j] = "end_header"
                /\ \A i \in 1..(j - 1) : file.lines[k][i] # "end_header"
        restOfLine == [i \in 1..(Len(file.lines[k]) - j) |-> 120]
    IN  (IF restOfLine = <<>> THEN <<>> ELSE Append(restOfLine, 10))
            \o textOf(file.lines, k + 1) \o file.payload

\* The outcome of a parsePLY call: its Result, the body decoder that ran and
\* the cursor of the binary reader at the end.
Outcome(r, decoder, offset) == [result |-> r, decoder |-> decoder, offset |-> offset]

\* The scene of a parsed body, or its error.
sceneOf(body) ==
    IF ~body.ok THEN body
    ELSE Ok(createSceneFromMeshData(body.value.vertices, body.value.faces))

parseBinaryFromArrayBuffer(v, file) ==
    pipe(parseHeader(v, textLines(file)), LAMBDA h :
        IF ~h.ok THEN Outcome(h, "none", -1)
        ELSE IF indexOfEndHeader(file.lines) = 0
        THEN Outcome(Err(ParseError("Could not find end_header", -1)), "none", -1)
        ELSE pipe(parseBinaryBodyFromArrayBuffer(v, binaryData(file), h.value.header),
                  LAMBDA body :
                      Outcome(sceneOf(body.r),
                              IF h.value.header.format = "binary_little_endian"
                              THEN "binary_little_endian" ELSE "binary_big_endian",
                              body.off)))

parseASCII(v, lines) ==
    pipe(parseHeader(v, lines), LAMBDA h :
        IF ~h.ok THEN Outcome(h, "none", -1)
        ELSE Outcome(sceneOf(parseAsciiBody(v, lines, h.value.header,
                                            h.value.dataStartIndex)),
                     "ascii", -1))

parsePLY(v, file) ==
    IF file.input = "string" \/ ~includesFormatBinary(textLines(file))
    THEN parseASCII(v, textLines(file))
    ELSE parseBinaryFromArrayBuffer(v, file)

(***************************************************************************)
(* The PLY run: a caller writes a geometry to a file, ASCII or binary, and *)
(* hands the file to parsePLY                                              *)
(***************************************************************************)
Scalar(type, name) == [list |-> FALSE, countType |-> "", type |-> type, name |-> name]

List(countType, type, name) ==
    [list |-> TRUE, countType |-> countType, type |-> type, name |-> name]

\* The property declarations of the vertex element.
VertexPropsInputs ==
    {<<Scalar("float", "x"), Scalar("float", "y"), Scalar("float", "z")>>,
     <<Scalar("double", "x"), Scalar("double", "y"), Scalar("double", "z")>>,
     <<Scalar("float", "x"), Scalar("float", "y"), Scalar("float", "z"),
       Scalar("float", "nx"), Scalar("float", "ny"), Scalar("float", "nz")>>}

\* The property declarations of the face element; none: no face element.
FacePropsInputs ==
    {<<>>,
     <<List("uchar", "int", "vertex_indices")>>,
     <<List("uchar", "int", "vertex_indices"), Scalar("uchar", "red")>>}

\* The values of a vertex record, one per declared property; the third has
\* one value less than any declaration.
VertexValueInputs ==
    {<<0, 0, 0>>, <<1, 0, 2>>, <<1, 0>>, <<0, 0, 0, 0, 0, 1>>, <<1, 0, 2, 0, 0, 1>>}

\* A face record: the list length written and the indices written after it.
FaceValueInputs ==
    {[count |-> 3, indices |-> <<0, 1, 0>>],
     [count |-> 3, indices |-> <<0, 1, 5>>],
     [count |-> 3, indices |-> <<0, 1>>],
     [count |-> 2, indices |-> <<0, 1>>]}

\* How a file is written: the format its header declares, the encoding of
\* its body, how it reaches parsePLY, whether a comment of the header quotes
\* a format, how much of the end of the body is cut off, how many vertices
\* the header declares beyond those written.
PlyOptions ==
    {o \in [format : PlyFormats, body : {"ascii", "binary"}, input : {"string", "buffer"},
            comment : BOOLEAN, cut : {0, 1}, extra : {0, 1}] :
        o.body = "binary" => o.format # "ascii"}

NoOptions ==
    [format |-> "ascii", body |-> "ascii", input |-> "string", comment |-> FALSE,
     cut |-> 0, extra |-> 0]

propertyLine(p) ==
    IF p.list THEN <<"property", "list", p.countType, p.type, p.name>>
    ELSE <<"property", p.type, p.name>>

headerLines(doc, o) ==
    <<<<"ply">>, <<"format", o.format, "1.0">>>>
        \o (IF o.comment THEN <<<<"comment", "was", "format", "binary_little_endian">>>>
            ELSE <<>>)
        \o <<<<"element", "vertex", IntToString(Len(doc.vertices) + o.extra)>>>>
        \o [j \in 1..Len(doc.vprops) |-> propertyLine(doc.vprops[j])]
        \o (IF doc.fprops = <<>> THEN <<>>
            ELSE <<<<"element", "face", IntToString(Len(doc.faces))>>>>
                     \o [j \in 1..Len(doc.fprops) |-> propertyLine(doc.fprops[j])])
        \o <<<<"end_header">>>>

\* The value written for a scalar property of a face (a colour).
FaceScalar == 1

\* The tokens of one face record.
RECURSIVE faceTokens(_, _, _)
faceTokens(fprops, face, j) ==
    IF j > Len(fprops) THEN <<>>
    ELSE (IF fprops[j].list
          THEN <<IntToString(face.count)>>
                   \o [i \in 1..Len(face.indices) |-> IntToString(face.indices[i])]
          ELSE <<IntToString(FaceScalar)>>)
             \o faceTokens(fprops, face, j + 1)

asciiBody(doc) ==
    [i \in 1..Len(doc.vertices) |->
        [j \in 1..Len(doc.vertices[i]) |-> IntToString(doc.vertices[i][j])]]
      \o [i \in 1..Len(doc.faces) |-> faceTokens(doc.fprops, doc.faces[i], 1)]

\* The bytes of one vertex record.
RECURSIVE vertexBytes(_, _, _, _)
vertexBytes(vprops, values, j, littleEndian) ==
    IF j > Len(values) THEN <<>>
    ELSE encode(values[j], vprops[j].type, littleEndian)
             \o vertexBytes(vprops, values, j + 1, littleEndian)

RECURSIVE indexBytes(_, _, _, _)
indexBytes(type, indices, i, littleEndian) ==
    IF i > Len(indices) THEN <<>>
    ELSE encode(indices[i], type, littleEndian) \o indexBytes(type, indices, i + 1, littleEndian)

\* The bytes of one face record.
RECURSIVE faceBytes(_, _, _, _)
faceBytes(fprops, face, j, littleEndian) ==
    IF j > Len(fprops) THEN <<>>
    ELSE (IF fprops[j].list
          THEN encode(face.count, fprops[j].countType, littleEndian)
                   \o indexBytes(fprops[j].type, face.indices, 1, littleEndian)
          ELSE encode(FaceScalar, fprops[j].type, littleEndian))
             \o faceBytes(fprops, face, j + 1, littleEndian)

RECURSIVE concat(_, _)
concat(seqs, i) == IF i > Len(seqs) THEN <<>> ELSE seqs[i] \o concat(seqs, i + 1)

binaryBody(doc, littleEndian) ==
    concat([i \in 1..Len(doc.vertices) |->
               vertexBytes(doc.vprops, doc.vertices[i], 1, littleEndian)], 1)
      \o concat([i \in 1..Len(doc.faces) |->
                    faceBytes(doc.fprops, doc.faces[i], 1, littleEndian)], 1)

\* All but the last n elements.
dropLast(s, n) == SubSeq(s, 1, IF Len(s) > n THEN Len(s) - n ELSE 0)

\* The file of a geometry written with the options o.
writePLY(doc, o) ==
    [input |-> o.input,
     lines |-> headerLines(doc, o)
                 \o (IF o.body = "ascii" THEN dropLast(asciiBody(doc), o.cut) ELSE <<>>),
     payload |-> IF o.body = "binary"
                 THEN dropLast(binaryBody(doc, o.format = "binary_little_endian"), o.cut)
                 ELSE <<>>,
     how |-> o]

\* The same geometry in the other encoding: ASCII text for a little-endian
\* file, a little-endian buffer for ASCII text.
twinOptions(o) ==
    IF o.body = "ascii"
    THEN [o EXCEPT !.format = "binary_little_endian", !.body = "binary", !.input = "buffer"]
    ELSE [o EXCEPT !.format = "ascii", !.body = "ascii", !.input = "string"]

MaxPlyVertices == 2

MaxPlyFaces == 1

InitPLY ==
    /\ plyVariant \in PlyVariants
    /\ plyPc = "write"
    /\ \E vp \in VertexPropsInputs, fp \in FacePropsInputs :
         plyDoc = [vprops |-> vp, vertices |-> <<>>, fprops |-> fp, faces |-> <<>>]
    /\ plyFile = EmptyFile
    /\ plyRun = NoRun
    /\ plyTwin = NoRun
    /\ IdleOBJ
    /\ IdleValidate
    /\ IdleGLTF
    /\ IdleResult
    /\ IdleCalls

\* The caller adds a vertex record, before any face record.
WriteVertex ==
    /\ plyPc = "write"
    /\ Len(plyDoc.vertices) < MaxPlyVertices
    /\ plyDoc.faces = <<>>
    /\ \E values \in VertexValueInputs :
         /\ Len(values) <= Len(plyDoc.vprops)
         /\ plyDoc' = [plyDoc EXCEPT !.vertices = Append(@, values)]
    /\ UNCHANGED <<plyVariant, plyPc, plyFile, plyRun, plyTwin>>
    /\ UNCHANGED <<objVars, valVars, gltfVars, resVars, callVars>>

\* The caller adds a face record, when the file has a face element.
WriteFace ==
    /\ plyPc = "write"
    /\ plyDoc.fprops # <<>>
    /\ Len(plyDoc.faces) < MaxPlyFaces
    /\ \E face \in FaceValueInputs :
         plyDoc' = [plyDoc EXCEPT !.faces = Append(@, face)]
    /\ UNCHANGED <<plyVariant, plyPc, plyFile, plyRun, plyTwin>>
    /\ UNCHANGED <<objVars, valVars, gltfVars, resVars, callVars>>

\* The file is written and parsePLY runs on it.
ParsePLY ==
    /\ plyPc = "write"
    /\ \E o \in PlyOptions :
         /\ plyFile' = writePLY(plyDoc, o)
         /\ plyRun' = parsePLY(plyVariant, writePLY(plyDoc, o))
    /\ plyPc' = "parsed"
    /\ UNCHANGED <<plyVariant, plyDoc, plyTwin>>
    /\ UNCHANGED <<objVars, valVars, gltfVars, resVars, callVars>>

\* The same geometry is written whole in the other encoding and parsePLY
\* runs on that file.
ParseTwin ==
    /\ plyPc = "parsed"
    /\ plyFile.how.cut = 0
    /\ ~plyFile.how.comment
    /\ \/ plyFile.how.format = "ascii"
       \/ /\ plyFile.how.format = "binary_little_endian"
          /\ plyFile.how.body = "binary"
          /\ plyFile.how.input = "buffer"
    /\ plyTwin' = parsePLY(plyVariant, writePLY(plyDoc, twinOptions(plyFile.how)))
    /\ plyPc' = "compared"
    /\ UNCHANGED <<plyVariant, plyDoc, plyFile, plyRun>>
    /\ UNCHANGED <<objVars, valVars, gltfVars, resVars, callVars>>

NextPLY == WriteVertex \/ WriteFace \/ ParsePLY \/ ParseTwin

SpecPLY == InitPLY /\ [][NextPLY]_vars

(***************************************************************************)
(* The PLY text run: a caller hands parsePLY a text made of arbitrary      *)
(* lines                                                                   *)
(***************************************************************************)
MaxTextLines == 4

FirstLineInputs == {<<"ply">>, <<>>}

TextLineInputs ==
    {<<"format", "ascii", "1.0">>, <<"format", "binary_little_endian", "1.0">>,
     <<"format", "utf8", "1.0">>, <<"format">>,
     <<"element", "vertex", "1">>, <<"element", "vertex">>, <<"element", "vertex", "x">>,
     <<"property", "float", "x">>, <<"property", "x">>, <<"property">>,
     <<"comment", "end_header">>, <<"obj_info", "x">>, <<>>,
     <<"end_header">>, <<"1", "0", "0">>}

InitPLYText ==
    /\ plyVariant \in PlyVariants
    /\ plyPc = "text"
    /\ plyDoc = EmptyDoc
    /\ \E input \in {"string", "buffer"}, first \in FirstLineInputs :
         plyFile = [input |-> input, lines |-> <<first>>, payload |-> <<>>]
    /\ plyRun = NoRun
    /\ plyTwin = NoRun
    /\ IdleOBJ
    /\ IdleValidate
    /\ IdleGLTF
    /\ IdleResult
    /\ IdleCalls

\* The text gets one more line.
AddLine ==
    /\ plyPc = "text"
    /\ Len(plyFile.lines) < MaxTextLines
    /\ \E line \in TextLineInputs :
         plyFile' = [plyFile EXCEPT !.lines = Append(@, line)]
    /\ UNCHANGED <<plyVariant, plyPc, plyDoc, plyRun, plyTwin>>
    /\ UNCHANGED <<objVars, valVars, gltfVars, resVars, callVars>>

\* parsePLY runs on the text.
ParseText ==
    /\ plyPc = "text"
    /\ plyRun' = parsePLY(plyVariant, plyFile)
    /\ plyPc' = "scanned"
    /\ UNCHANGED <<plyVariant, plyDoc, plyFile, plyTwin>>
    /\ UNCHANGED <<objVars, valVars, gltfVars, resVars, callVars>>

NextPLYText == AddLine \/ ParseText

SpecPLYText == InitPLYText /\ [][NextPLYText]_vars

(***************************************************************************)
(* Claims about parsePLY                                                   *)
(***************************************************************************)
\* The text has no line that is exactly `end_header`.
NoEndHeaderLine(lines) == \A k \in 1..Len(lines) : lines[k] # <<"end_header">>

\* C11: a PLY input whose first line is `ply` and that has no `end_header`
\* line fails with the message "Missing end_header" and a line number equal to
\* the number of lines of the input, whatever its other lines contain.
C11_MissingEndHeader ==
    (/\ plyPc = "scanned"
     /\ plyFile.lines[1] = <<"ply">>
     /\ NoEndHeaderLine(textLines(plyFile)))
        => /\ ~plyRun.result.ok
           /\ plyRun.result.error.message = "Missing end_header"
           /\ plyRun.result.error.line = Len(textLines(plyFile))

\* The file holds what its header declares: one value per declared property
\* in every vertex record, as many indices as its list length in every face
\* record, as many vertex records as the header counts, nothing cut off.
WholeFile ==
    /\ \A i \in 1..Len(plyDoc.vertices) : Len(plyDoc.vertices[i]) = Len(plyDoc.vprops)
    /\ \A i \in 1..Len(plyDoc.faces) : Len(plyDoc.faces[i].indices) = plyDoc.faces[i].count
    /\ plyFile.how.extra = 0
    /\ plyFile.how.cut = 0

geometryOf(outcome) ==
    [vertices |-> outcome.result.value.meshes[1].vertices,
     faces |-> outcome.result.value.meshes[1].faces]

\* C12: for the same declared vertex properties and the same values, parsePLY
\* on the ASCII encoding and parsePLY on the binary_little_endian encoding
\* either both succeed with the same vertices and the same faces, or both fail.
C12_CrossFormat ==
    (plyPc = "compared" /\ WholeFile)
        => \/ /\ plyRun.result.ok
              /\ plyTwin.result.ok
              /\ geometryOf(plyRun) = geometryOf(plyTwin)
           \/ /\ ~plyRun.result.ok
              /\ ~plyTwin.result.ok

\* Every record the file holds was written whole.
WholeRecords ==
    /\ \A i \in 1..Len(plyDoc.vertices) : Len(plyDoc.vertices[i]) = Len(plyDoc.vprops)
    /\ \A i \in 1..Len(plyDoc.faces) : Len(plyDoc.faces[i].indices) = plyDoc.faces[i].count

\* A binary file, handed over as a buffer, whose payload ends early: its last
\* byte is cut off, or its header counts one vertex more than the payload
\* (all of it vertex records) holds.
TruncatedBinary ==
    /\ plyFile.how.body = "binary"
    /\ plyFile.how.input = "buffer"
    /\ WholeRecords
    /\ \/ /\ plyFile.how.cut = 1
          /\ plyFile.how.extra = 0
          /\ Len(plyDoc.vertices) + Len(plyDoc.faces) > 0
       \/ /\ plyFile.how.cut = 0
          /\ plyFile.how.extra = 1
          /\ plyDoc.faces = <<>>

EndOfFileMessages ==
    {"Unexpected EOF", "Unexpected EOF while skipping", "Unexpected end of file in binary data"}

\* C13: a binary PLY (little- or big-endian) whose payload ends before all
\* the vertex and face records its header declares are complete makes parsePLY
\* fail with an unexpected-end-of-file error; no ok Scene is returned.
C13_TruncatedBinaryFails ==
    (plyPc = "parsed" /\ TruncatedBinary)
        => /\ ~plyRun.result.ok
           /\ plyRun.result.error.message \in EndOfFileMessages

\* The format named by the format line of the file's header.
declaredFormat == plyFile.how.format

\* C14: the body decoder is selected by the format the header declares, for
\* string and buffer input alike: `format ascii` is decoded by the ASCII line
\* decoder, `format binary_little_endian` / `binary_big_endian` by the binary
\* cursor decoder with that endianness.
C14_DecoderByDeclaredFormat ==
    (plyPc = "parsed" /\ plyRun.decoder # "none")
        => plyRun.decoder = declaredFormat

\* An ok Scene read by the ASCII line decoder from a body written as ASCII
\* lines, one line per declared record, so that face k of the result was
\* read from the line of face k of the file.
AsciiFacesRead ==
    /\ plyPc = "parsed"
    /\ plyFile.how.body = "ascii"
    /\ plyFile.how.cut = 0
    /\ plyFile.how.extra = 0
    /\ \A i \in 1..Len(plyDoc.vertices) : Len(plyDoc.vertices[i]) = Len(plyDoc.vprops)
    /\ plyRun.decoder = "ascii"
    /\ plyRun.result.ok

\* C15: in an ASCII body every face line yields a face with exactly as many
\* indices as the line's leading list-length integer, and never a face with
\* fewer than 3 indices (a list-length below 3 is an error).
C15_AsciiFaceLength ==
    AsciiFacesRead
        => LET faces == plyRun.result.value.meshes[1].faces
           IN  /\ Len(faces) = Len(plyDoc.faces)
               /\ \A k \in 1..Len(faces) :
                      /\ Len(faces[k].indices) >= 3
                      /\ Len(faces[k].indices) = plyDoc.faces[k].count

\* An ASCII body of vertex lines only, each with one finite number per
\* declared property, read by the ASCII line decoder.
AsciiVerticesRead ==
    /\ plyPc = "parsed"
    /\ plyFile.how.body = "ascii"
    /\ plyFile.how.cut = 0
    /\ plyFile.how.extra = 0
    /\ plyDoc.vertices # <<>>
    /\ plyDoc.faces = <<>>
    /\ \A i \in 1..Len(plyDoc.vertices) : Len(plyDoc.vertices[i]) = Len(plyDoc.vprops)
    /\ plyRun.decoder = "ascii"

\* The position written on vertex line i: the values at the places of the
\* properties x, y and z (the first three of every declaration).
writtenPosition(i) ==
    createVec3(Num(plyDoc.vertices[i][1]), Num(plyDoc.vertices[i][2]),
               Num(plyDoc.vertices[i][3]))

\* C16: in an ASCII body whose vertex element declares x, y, z, every vertex
\* line with one finite number per declared property is accepted and yields
\* a vertex whose position is exactly the values of x, y and z, the origin
\* (0, 0, 0) included.
C16_AsciiVertexAccepted ==
    AsciiVerticesRead
        => /\ plyRun.result.ok
           /\ LET vertices == plyRun.result.value.meshes[1].vertices
              IN  /\ Len(vertices) = Len(plyDoc.vertices)
                  /\ \A i \in 1..Len(vertices) : vertices[i].position = writtenPosition(i)

\* C17: every face of every Scene that parsePLY returns as ok, from an ASCII
\* or a binary body, has at least 3 indices, each an index i with
\* 0 <= i < number of vertices of its mesh.
C17_FacesInRange ==
    (plyPc = "parsed" /\ plyRun.result.ok)
        => \A m \in 1..Len(plyRun.result.value.meshes) :
               LET mesh == plyRun.result.value.meshes[m]
               IN  \A k \in 1..Len(mesh.faces) :
                       /\ Len(mesh.faces[k].indices) >= 3
                       /\ \A j \in 1..Len(mesh.faces[k].indices) :
                              /\ mesh.faces[k].indices[j].v >= 0
                              /\ mesh.faces[k].indices[j].v < Len(mesh.vertices)

(***************************************************************************)
(* glTF parser (shared/parsers/gltf.ts, parseGLTF of lines 1-536).  The    *)
(* JSON text is held as the document it denotes; a base64 text is the      *)
(* sequence of its characters' values: 0..63 the alphabet, 64 the padding   *)
(* `=`, 65 a character outside the alphabet.  Every function returns its   *)
(* result together with the calls it made, [r, work].                      *)
(***************************************************************************)
GLTFParseError(message, detail) == [message |-> message, detail |-> detail]

Pad == 64

BadChar == 65

\* btoa of a byte sequence: the text a writer embeds in a data URI.
RECURSIVE btoa(_)
btoa(bytes) ==
    IF Len(bytes) = 0 THEN <<>>
    ELSE IF Len(bytes) = 1
    THEN <<bytes[1] \div 4, (bytes[1] % 4) * 16, Pad, Pad>>
    ELSE IF Len(bytes) = 2
    THEN <<bytes[1] \div 4, (bytes[1] % 4) * 16 + bytes[2] \div 16, (bytes[2] % 16) * 4, Pad>>
    ELSE <<bytes[1] \div 4, (bytes[1] % 4) * 16 + bytes[2] \div 16,
           (bytes[2] % 16) * 4 + bytes[3] \div 64, bytes[3] % 64>>
             \o btoa(SubSeq(bytes, 4, Len(bytes)))

RECURSIVE sextetsToBytes(_)
sextetsToBytes(d) ==
    IF Len(d) < 2 THEN <<>>
    ELSE IF Len(d) = 2 THEN <<d[1] * 4 + d[2] \div 16>>
    ELSE IF Len(d) = 3 THEN <<d[1] * 4 + d[2] \div 16, (d[2] % 16) * 16 + d[3] \div 4>>
    ELSE <<d[1] * 4 + d[2] \div 16, (d[2] % 16) * 16 + d[3] \div 4, (d[3] % 4) * 64 + d[4]>>
             \o sextetsToBytes(SubSeq(d, 5, Len(d)))

\* atob: up to two trailing `=` of a text of length 4n are dropped; a length
\* of 4n + 1 or a character outside the alphabet throws.
atob(base64) ==
    LET n == Len(base64)
        pads == IF n > 0 /\ n % 4 = 0
                THEN (IF base64[n] = Pad THEN (IF base64[n - 1] = Pad THEN 2 ELSE 1) ELSE 0)
                ELSE 0
        data == SubSeq(base64, 1, n - pads)
    IN  IF Len(data) % 4 = 1 \/ \E i \in 1..Len(data) : data[i] >= Pad
        THEN Thrown("InvalidCharacterError")
        ELSE Ok(sextetsToBytes(data))

\* A URI: its scheme with the colon ("" when it has none), whether
\* `;base64,` follows, the text after that marker, else the whole rest.
DataURI(base64) == [scheme |-> "data:", marker |-> TRUE, base64 |-> base64, rest |-> ""]

PlainDataURI == [scheme |-> "data:", marker |-> FALSE, base64 |-> <<>>, rest |-> ",hello"]

ExternalURI(name) == [scheme |-> "", marker |-> FALSE, base64 |-> <<>>, rest |-> name]

EmptyURI == ExternalURI("")

\* The text of a URI that is not a data URI.
uriText(uri) == uri.rest

\* Mutant: the asset member is not looked at.
parseJSONWithoutAsset(content) ==
    IF content.json = "malformed"
    THEN Err(GLTFParseError("Failed to parse JSON", "SyntaxError"))
    ELSE IF content.json = "null"
    THEN Err(GLTFParseError("Failed to parse JSON", "TypeError"))
    ELSE Ok(content)

parseJSON(content) ==
    IF content.json = "malformed"
    THEN Err(GLTFParseError("Failed to parse JSON", "SyntaxError"))
    ELSE IF content.json = "null"
    THEN Err(GLTFParseError("Failed to parse JSON", "TypeError"))
    ELSE IF content.asset = None \/ content.asset[1].version = None
                                 \/ content.asset[1].version = Some("")
    THEN Err(GLTFParseError("Invalid GLTF: missing asset information", ""))
    ELSE Ok(content)

decodeDataURI(uri) ==
    IF ~(uri.scheme = "data:" /\ uri.marker)
    THEN Err(GLTFParseError("Invalid data URI format", ""))
    ELSE pipe(atob(uri.base64), LAMBDA binaryString :
             IF IsThrown(binaryString)
             THEN Err(GLTFParseError("Failed to decode data URI", binaryString.error.message))
             ELSE Ok(binaryString.value))

loadBuffer(buffer, index) ==
    IF buffer.uri = None \/ buffer.uri = Some(EmptyURI)
    THEN [r |-> Err(GLTFParseError(
                  "Buffer has no URI (external buffers not supported in this implementation)",
                  IntToString(index))),
          work |-> <<"loadBuffer">>]
    ELSE IF buffer.uri[1].scheme = "data:"
    THEN [r |-> decodeDataURI(buffer.uri[1]), work |-> <<"loadBuffer", "decodeDataURI">>]
    ELSE [r |-> Err(GLTFParseError("External buffer URIs not supported",
                                   uriText(buffer.uri[1]))),
          work |-> <<"loadBuffer">>]

\* gltf.buffers.map(loadBuffer): every buffer is loaded, then `all` keeps the
\* first failure.
loadBuffers(g) ==
    IF Len(g.buffers) = 0 THEN [r |-> Ok(<<>>), work |-> <<>>]
    ELSE pipe([i \in 1..Len(g.buffers) |-> loadBuffer(g.buffers[i], i - 1)],
              LAMBDA bufferResults :
                  [r |-> all([i \in 1..Len(bufferResults) |-> bufferResults[i].r]),
                   work |-> concat([i \in 1..Len(bufferResults) |->
                                       bufferResults[i].work], 1)])

\* Component type constants.
BYTE == 5120

UNSIGNED_BYTE == 5121

SHORT == 5122

UNSIGNED_SHORT == 5123

UNSIGNED_INT == 5125

FLOAT == 5126

\* `${componentType}`
componentTypeText(componentType) ==
    IF componentType = BYTE THEN "5120"
    ELSE IF componentType = UNSIGNED_BYTE THEN "5121"
    ELSE IF componentType = SHORT THEN "5122"
    ELSE IF componentType = UNSIGNED_SHORT THEN "5123"
    ELSE IF componentType = UNSIGNED_INT THEN "5125"
    ELSE IF componentType = FLOAT THEN "5126"
    ELSE "?"

\* TypeSize[type]; an unknown type gives undefined, and a length of NaN is
\* taken as 0 by the typed array.
TypeSize(type) ==
    IF type = "SCALAR" THEN 1
    ELSE IF type = "VEC2" THEN 2
    ELSE IF type = "VEC3" THEN 3
    ELSE IF type \in {"VEC4", "MAT2"} THEN 4
    ELSE IF type = "MAT3" THEN 9
    ELSE IF type = "MAT4" THEN 16
    ELSE 0

\* The value of an absent array element.
Undefined == [fin |-> FALSE, v |-> -1]

\* data[i]
elem(data, i) == IF i >= 0 /\ i < Len(data) THEN data[i + 1] ELSE Undefined

\* new Float32Array / Uint16Array / Uint32Array (buffer, byteOffset, length):
\* a view of `length` elements read in platform (little-endian) byte order;
\* a misaligned offset or a range past the end of the buffer throws.
TypedArray(buffer, byteOffset, length, type) ==
    IF byteOffset % sizes(type) # 0 \/ byteOffset + length * sizes(type) > Len(buffer)
    THEN Thrown("RangeError")
    ELSE Ok([j \in 1..length |->
                decode(SubSeq(buffer, byteOffset + (j - 1) * sizes(type) + 1,
                              byteOffset + j * sizes(type)), type, TRUE)])

\* The switch on accessor.componentType over the view of the buffer.
readComponents(accessor, buffer, byteOffset, totalElements) ==
    IF accessor.componentType \notin {FLOAT, UNSIGNED_SHORT, UNSIGNED_INT}
    THEN Err(GLTFParseError("Unsupported component type",
                            componentTypeText(accessor.componentType)))
    ELSE pipe(TypedArray(buffer, byteOffset, totalElements,
                         IF accessor.componentType = FLOAT THEN "float"
                         ELSE IF accessor.componentType = UNSIGNED_SHORT THEN "ushort"
                         ELSE "uint"),
              LAMBDA array :
                  IF IsThrown(array)
                  THEN Err(GLTFParseError("Failed to read accessor", array.error.message))
                  ELSE array)

\* readAccessor from the bufferView on.
readBufferView(buffers, accessor, bufferView) ==
    IF at(buffers, bufferView.buffer) = None
    THEN Err(GLTFParseError("Buffer not found", IntToString(bufferView.buffer)))
    ELSE readComponents(accessor, buffers[bufferView.buffer + 1],
                        bufferView.byteOffset + accessor.byteOffset,
                        accessor.count * TypeSize(accessor.type))

\* readAccessor from the accessor on.
readAccessorOf(g, buffers, accessorIndex, accessor) ==
    IF accessor.bufferView = None
    THEN Err(GLTFParseError("Accessor has no bufferView", IntToString(accessorIndex)))
    ELSE IF at(g.bufferViews, accessor.bufferView[1]) = None
    THEN Err(GLTFParseError("BufferView not found", IntToString(accessor.bufferView[1])))
    ELSE readBufferView(buffers, accessor, g.bufferViews[accessor.bufferView[1] + 1])

readAccessor(g, buffers, accessorIndex) ==
    IF at(g.accessors, accessorIndex) = None
    THEN Err(GLTFParseError("Accessor not found", IntToString(accessorIndex)))
    ELSE readAccessorOf(g, buffers, accessorIndex, g.accessors[accessorIndex + 1])

RECURSIVE toVec3ArrayFrom(_, _)
toVec3ArrayFrom(data, i) ==
    IF i >= Len(data) THEN <<>>
    ELSE <<createVec3(elem(data, i), elem(data, i + 1), elem(data, i + 2))>>
             \o toVec3ArrayFrom(data, i + 3)

toVec3Array(data) == toVec3ArrayFrom(data, 0)

RECURSIVE toVec2ArrayFrom(_, _)
toVec2ArrayFrom(data, i) ==
    IF i >= Len(data) THEN <<>>
    ELSE <<createVec2(elem(data, i), elem(data, i + 1))>> \o toVec2ArrayFrom(data, i + 2)

toVec2Array(data) == toVec2ArrayFrom(data, 0)

createMaterial(name, diffuse, ambient, shininess) ==
    [name |-> name, diffuse |-> diffuse, ambient |-> ambient, shininess |-> shininess]

\* A material without pbrMetallicRoughness and emissiveFactor.
parseMaterial(gltfMaterial) ==
    createMaterial(IF gltfMaterial.name = None \/ gltfMaterial.name = Some("")
                   THEN "default" ELSE gltfMaterial.name[1],
                   None, None, None)

parseMaterials(g) == [i \in 1..Len(g.materials) |-> parseMaterial(g.materials[i])]

\* The vertices of the positions with the normals and the texture
\* coordinates that were read.
zipVertices(positions, normals, texCoords) ==
    [i \in 1..Len(positions) |->
        createVertex(positions[i], at(normals, i - 1), at(texCoords, i - 1))]

\* primitive.attributes.X !== undefined ? readAccessor(...) : null, kept
\* when it succeeded.
optionalAttribute(g, buffers, attribute) ==
    IF attribute = None THEN Err(GLTFParseError("", ""))
    ELSE readAccessor(g, buffers, attribute[1])

\* The reads of buildPrimitiveVertices, one per attribute that is present.
attributeWork(attributes) ==
    <<"readAccessor">>
        \o (IF attributes.NORMAL # None THEN <<"readAccessor">> ELSE <<>>)
        \o (IF attributes.TEXCOORD_0 # None THEN <<"readAccessor">> ELSE <<>>)

verticesOfAttributes(g, buffers, attributes) ==
    pipe(readAccessor(g, buffers, attributes.POSITION[1]), LAMBDA positionsResult :
        IF ~positionsResult.ok
        THEN [r |-> positionsResult, work |-> <<"readAccessor">>]
        ELSE pipe(optionalAttribute(g, buffers, attributes.NORMAL), LAMBDA normalsResult :
                 pipe(optionalAttribute(g, buffers, attributes.TEXCOORD_0),
                      LAMBDA texCoordsResult :
                          [r |-> Ok(zipVertices(
                                      toVec3Array(positionsResult.value),
                                      IF normalsResult.ok
                                      THEN toVec3Array(normalsResult.value) ELSE <<>>,
                                      IF texCoordsResult.ok
                                      THEN toVec2Array(texCoordsResult.value) ELSE <<>>)),
                           work |-> attributeWork(attributes)])))

buildPrimitiveVertices(g, buffers, primitive) ==
    IF primitive.attributes = None
    THEN [r |-> Thrown("TypeError"), work |-> <<>>]
    ELSE IF primitive.attributes[1].POSITION = None
    THEN [r |-> Err(GLTFParseError("Primitive missing POSITION attribute", "")),
          work |-> <<>>]
    ELSE verticesOfAttributes(g, buffers, primitive.attributes[1])

\* A number of the index data as a face index.
faceIndex(x) == IF x = Undefined THEN [int |-> FALSE, v |-> -1] ELSE Idx(x.v)

RECURSIVE triples(_, _, _)
triples(indices, i, materialName) ==
    IF i >= Len(indices) THEN <<>>
    ELSE <<createFace(<<faceIndex(elem(indices, i)), faceIndex(elem(indices, i + 1)),
                        faceIndex(elem(indices, i + 2))>>, materialName)>>
             \o triples(indices, i + 3, materialName)

buildPrimitiveFaces(g, buffers, primitive, materialName) ==
    IF primitive.indices = None THEN [r |-> Ok(<<>>), work |-> <<>>]
    ELSE pipe(readAccessor(g, buffers, primitive.indices[1]), LAMBDA indicesResult :
             [r |-> IF ~indicesResult.ok THEN indicesResult
                    ELSE Ok(triples(indicesResult.value, 0, materialName)),
              work |-> <<"readAccessor">>])

\* materials[primitive.material]?.name
materialNameOf(primitive, materials) ==
    IF primitive.material = None \/ at(materials, primitive.material[1]) = None
    THEN None
    ELSE Some(materials[primitive.material[1] + 1].name)

\* The callback of gltfMesh.primitives.map in parseMesh.
parsePrimitive(g, buffers, primitive, materials) ==
    pipe(buildPrimitiveVertices(g, buffers, primitive), LAMBDA verticesResult :
        IF ~verticesResult.r.ok THEN verticesResult
        ELSE pipe(buildPrimitiveFaces(g, buffers, primitive,
                                      materialNameOf(primitive, materials)),
                  LAMBDA facesResult :
                      [r |-> IF ~facesResult.r.ok THEN facesResult.r
                             ELSE Ok([vertices |-> verticesResult.r.value,
                                      faces |-> facesResult.r.value]),
                       work |-> verticesResult.work \o facesResult.work]))

\* results.map(f) of callbacks that may throw: the calls up to the first
\* exception, which leaves the map; else every call, then `all`.
RECURSIVE mapAll(_, _, _)
mapAll(results, k, work) ==
    IF k > Len(results)
    THEN [r |-> all([i \in 1..Len(results) |-> results[i].r]), work |-> work]
    ELSE IF IsThrown(results[k].r) THEN [r |-> results[k].r, work |-> work \o results[k].work]
    ELSE mapAll(results, k + 1, work \o results[k].work)

parseMesh(g, buffers, gltfMesh, materials) ==
    IF gltfMesh.primitives = None THEN [r |-> Thrown("TypeError"), work |-> <<>>]
    ELSE mapAll([p \in 1..Len(gltfMesh.primitives[1]) |->
                    parsePrimitive(g, buffers, gltfMesh.primitives[1][p], materials)],
                1, <<>>)

\* Math.min(...values) / Math.max(...values): NaN as soon as one value is
\* NaN or undefined.
mathMin(S) ==
    IF \E x \in S : x \in {NaN, Undefined} THEN NaN
    ELSE CHOOSE a \in S : \A b \in S : NumLeq(a, b)

mathMax(S) ==
    IF \E x \in S : x \in {NaN, Undefined} THEN NaN
    ELSE CHOOSE a \in S : \A b \in S : NumLeq(b, a)

\* The three coordinates of the vertices, each a set of numbers.
coordinates(vertices) ==
    [x |-> {vertices[i].position.x : i \in 1..Len(vertices)},
     y |-> {vertices[i].position.y : i \in 1..Len(vertices)},
     z |-> {vertices[i].position.z : i \in 1..Len(vertices)}]

calculateBoundingBoxGLTF(vertices) ==
    IF Len(vertices) = 0 THEN None
    ELSE pipe(coordinates(vertices), LAMBDA c :
             Some([min |-> createVec3(mathMin(c.x), mathMin(c.y), mathMin(c.z)),
                   max |-> createVec3(mathMax(c.x), mathMax(c.y), mathMax(c.z))]))

\* `mesh_${i}`
meshName(i) == IF i = 0 THEN "mesh_0" ELSE IF i = 1 THEN "mesh_1" ELSE "mesh_n"

\* The mesh of the primitives of gltfMesh number i: all of them in one list.
flattenMesh(gltfMesh, i, primitives) ==
    createMesh(IF gltfMesh.name = None \/ gltfMesh.name = Some("")
               THEN meshName(i) ELSE gltfMesh.name[1],
               concat([p \in 1..Len(primitives) |-> primitives[p].vertices], 1),
               concat([p \in 1..Len(primitives) |-> primitives[p].faces], 1),
               None)

\* The callback of gltf.meshes.map in buildScene.
sceneMesh(g, buffers, i, materials) ==
    pipe(parseMesh(g, buffers, g.meshes[i], materials), LAMBDA parsed :
        [r |-> IF ~parsed.r.ok THEN parsed.r
               ELSE Ok(flattenMesh(g.meshes[i], i - 1, parsed.r.value)),
         work |-> parsed.work])

\* The scene of the meshes: its metadata counts every vertex and face.
sceneOfMeshes(meshes, materials, allVertices, allFaces) ==
    createScene(meshes, materials,
                [format |-> "GLTF", vertexCount |-> Len(allVertices),
                 faceCount |-> Len(allFaces),
                 boundingBox |-> calculateBoundingBoxGLTF(allVertices)])

concatVertices(meshes) == concat([m \in 1..Len(meshes) |-> meshes[m].vertices], 1)

concatFaces(meshes) == concat([m \in 1..Len(meshes) |-> meshes[m].faces], 1)

buildSceneWith(g, buffers, materials) ==
    pipe(mapAll([i \in 1..Len(g.meshes) |-> sceneMesh(g, buffers, i, materials)], 1, <<>>),
         LAMBDA meshResults :
             IF ~meshResults.r.ok THEN meshResults
             ELSE [r |-> Ok(sceneOfMeshes(meshResults.r.value, materials,
                                          concatVertices(meshResults.r.value),
                                          concatFaces(meshResults.r.value))),
                   work |-> meshResults.work])

buildSceneGLTF(g, buffers) ==
    IF Len(g.meshes) = 0
    THEN [r |-> Err(GLTFParseError("No meshes found in GLTF", "")), work |-> <<>>]
    ELSE buildSceneWith(g, buffers, parseMaterials(g))

\* The work and the result of a stage after the work done before it.
after(work, stage) == [r |-> stage.r, work |-> work \o stage.work]

\* parseGLTF: parseJSON, then loadBuffers, then buildScene, each only after
\* the one before succeeded.
parseGLTF(content) ==
    pipe(parseJSON(content), LAMBDA json :
        IF ~json.ok THEN [r |-> json, work |-> <<"parseJSON">>]
        ELSE pipe(loadBuffers(json.value), LAMBDA loaded :
                 IF ~loaded.r.ok THEN after(<<"parseJSON">>, loaded)
                 ELSE after(<<"parseJSON">> \o loaded.work,
                            buildSceneGLTF(json.value, loaded.r.value))))

(***************************************************************************)
(* The glTF run: a document is put together, then parseGLTF runs on its    *)
(* text step by step: parseJSON, loadBuffers, buildScene                   *)
(***************************************************************************)
MaxBuffers == 2

MaxGltfMeshes == 1

MaxPrimitives == 1

\* The bytes of an embedded buffer: the positions (0,0,0), (1,0,0), (0,1,0)
\* as float32, then the indices 0, 1, 2, 0 as uint16, little-endian.
GeometryBytes ==
    concat(<<encode(0, "float", TRUE), encode(0, "float", TRUE), encode(0, "float", TRUE),
             encode(1, "float", TRUE), encode(0, "float", TRUE), encode(0, "float", TRUE),
             encode(0, "float", TRUE), encode(1, "float", TRUE), encode(0, "float", TRUE),
             encode(0, "ushort", TRUE), encode(1, "ushort", TRUE),
             encode(2, "ushort", TRUE), encode(0, "ushort", TRUE)>>, 1)

BufferInputs ==
    {[uri |-> Some(DataURI(btoa(GeometryBytes)))],
     [uri |-> None],
     [uri |-> Some(EmptyURI)],
     [uri |-> Some(ExternalURI("mesh.bin"))],
     [uri |-> Some(PlainDataURI)],
     [uri |-> Some(DataURI(<<0, 0, BadChar, 0>>))]}

BufferView(buffer, byteOffset, byteLength) ==
    [buffer |-> buffer, byteOffset |-> byteOffset, byteLength |-> byteLength]

BufferViewTable ==
    <<BufferView(0, 0, 36), BufferView(0, 36, 8), BufferView(1, 0, 36)>>

Accessor(bufferView, componentType, count, type) ==
    [bufferView |-> bufferView, byteOffset |-> 0, componentType |-> componentType,
     count |-> count, type |-> type]

\* The accessors of every document, by index: 0 the positions, 1 the
\* indices, 2 of an unsupported component type, 3 through the second buffer,
\* 4 longer than its buffer, 5 the texture coordinates, 6 four indices,
\* 7 without bufferView.
AccessorTable ==
    <<Accessor(Some(0), FLOAT, 3, "VEC3"),
      Accessor(Some(1), UNSIGNED_SHORT, 3, "SCALAR"),
      Accessor(Some(0), UNSIGNED_BYTE, 3, "VEC3"),
      Accessor(Some(2), FLOAT, 3, "VEC3"),
      Accessor(Some(0), FLOAT, 9, "VEC3"),
      Accessor(Some(0), FLOAT, 3, "VEC2"),
      Accessor(Some(1), UNSIGNED_SHORT, 4, "SCALAR"),
      Accessor(None, FLOAT, 3, "VEC3")>>

PositionInputs == {None, Some(0), Some(2), Some(3)}

NormalInputs == {None, Some(0), Some(2), Some(4)}

TexCoordInputs == {None, Some(5), Some(2)}

\* 8: no such accessor.
IndicesInputs == {None, Some(1), Some(2), Some(6), Some(7), Some(8)}

\* The primitives of a document; the last has no `attributes` member.
PrimitiveInputs ==
    {[attributes |-> Some([POSITION |-> p, NORMAL |-> n, TEXCOORD_0 |-> t]),
      indices |-> i, material |-> None] :
        p \in PositionInputs, n \in NormalInputs, t \in TexCoordInputs, i \in IndicesInputs}
      \cup {[attributes |-> None, indices |-> None, material |-> None]}

\* The `primitives` member of a mesh before primitives are put into it:
\* absent, or an empty list.
PrimitivesInputs == {None, Some(<<>>)}

\* The asset member of the document: absent, without version, with an empty
\* version, with version 2.0.
AssetInputs ==
    {None, Some([version |-> None]), Some([version |-> Some("")]),
     Some([version |-> Some("2.0")])}

\* The texts handed to parseGLTF before anything is put into the document:
\* a JSON object with some asset, the JSON text `null`, a text that is not
\* JSON.
ContentInputs ==
    {[EmptyGLTF EXCEPT !.asset = a, !.bufferViews = BufferViewTable,
                       !.accessors = AccessorTable] : a \in AssetInputs}
        \cup {[EmptyGLTF EXCEPT !.json = "null"], [EmptyGLTF EXCEPT !.json = "malformed"]}

InitGLTF ==
    /\ IdleOBJ
    /\ IdleValidate
    /\ IdlePLY
    /\ IdleResult
    /\ IdleCalls
    /\ gltf \in ContentInputs
    /\ gpc = "write"
    /\ gwork = <<>>
    /\ gbuffers = Pending
    /\ gresult = Pending

AddBuffer ==
    /\ gpc = "write"
    /\ gltf.json = "object"
    /\ Len(gltf.buffers) < MaxBuffers
    /\ \E b \in BufferInputs : gltf' = [gltf EXCEPT !.buffers = Append(@, b)]
    /\ UNCHANGED <<gpc, gwork, gbuffers, gresult, objVars, valVars, plyVars, resVars, callVars>>

AddGltfMesh ==
    /\ gpc = "write"
    /\ gltf.json = "object"
    /\ Len(gltf.meshes) < MaxGltfMeshes
    /\ \E ps \in PrimitivesInputs :
           gltf' = [gltf EXCEPT !.meshes = Append(@, [name |-> None, primitives |-> ps])]
    /\ UNCHANGED <<gpc, gwork, gbuffers, gresult, objVars, valVars, plyVars, resVars, callVars>>

AddPrimitive ==
    /\ gpc = "write"
    /\ Len(gltf.meshes) > 0
    /\ gltf.meshes[Len(gltf.meshes)].primitives # None
    /\ Len(gltf.meshes[Len(gltf.meshes)].primitives[1]) < MaxPrimitives
    /\ \E p \in PrimitiveInputs :
           gltf' = [gltf EXCEPT !.meshes[Len(gltf.meshes)].primitives[1] = Append(@, p)]
    /\ UNCHANGED <<gpc, gwork, gbuffers, gresult, objVars, valVars, plyVars, resVars, callVars>>

\* parseGLTF, first stage.
ParseJSON ==
    /\ gpc = "write"
    /\ gwork' = <<"parseJSON">>
    /\ \E json \in {parseJSON(gltf)} :
         IF json.ok
         THEN gpc' = "loadBuffers" /\ UNCHANGED gresult
         ELSE gpc' = "done" /\ gresult' = json
    /\ UNCHANGED <<gltf, gbuffers, objVars, valVars, plyVars, resVars, callVars>>

\* Second stage: andThen(r, gltf => andThen(loadBuffers(gltf), ...)).
LoadBuffers ==
    /\ gpc = "loadBuffers"
    /\ \E loaded \in {loadBuffers(gltf)} :
         /\ gwork' = gwork \o loaded.work
         /\ gbuffers' = loaded.r
         /\ IF loaded.r.ok
            THEN gpc' = "buildScene" /\ UNCHANGED gresult
            ELSE gpc' = "done" /\ gresult' = loaded.r
    /\ UNCHANGED <<gltf, objVars, valVars, plyVars, resVars, callVars>>

\* Third stage: andThen(r, ({gltf, buffers}) => buildScene(gltf, buffers)).
BuildScene ==
    /\ gpc = "buildScene"
    /\ \E built \in {buildSceneGLTF(gltf, gbuffers.value)} :
         /\ gwork' = gwork \o built.work
         /\ gresult' = built.r
    /\ gpc' = "done"
    /\ UNCHANGED <<gltf, gbuffers, objVars, valVars, plyVars, resVars, callVars>>

NextGLTF == AddBuffer \/ AddGltfMesh \/ AddPrimitive \/ ParseJSON \/ LoadBuffers \/ BuildScene

SpecGLTF == InitGLTF /\ [][NextGLTF]_vars

\* The stages of a finished run made the calls, and gave the result, of the
\* composition parseGLTF.
StagesAreParseGLTF ==
    gpc = "done" => [r |-> gresult, work |-> gwork] = parseGLTF(gltf)

(***************************************************************************)
(* Claims about parseGLTF                                                  *)
(***************************************************************************)
\* The primitives of a mesh; none when it has no `primitives` member.
primitivesOf(gltfMesh) ==
    IF gltfMesh.primitives = None THEN <<>> ELSE gltfMesh.primitives[1]

\* The text is a JSON object without `asset`, or whose asset has no version.
LacksAsset ==
    /\ gltf.json = "object"
    /\ (gltf.asset = None \/ gltf.asset[1].version = None)

BufferWork == {"loadBuffer", "decodeDataURI", "readAccessor"}

\* C18: parseGLTF on JSON that lacks `asset` or `asset.version` fails before
\* any buffer is decoded and before any accessor is read: the run has no
\* loadBuffer, decodeDataURI or readAccessor call and ends with the
\* missing-asset error, whatever the buffers and accessors are.
C18_AssetBeforeBuffers ==
    (gpc \notin {"idle", "write"} /\ LacksAsset)
        => /\ gpc = "done"
           /\ \A i \in 1..Len(gwork) : gwork[i] \notin BufferWork
           /\ gresult = Err(GLTFParseError("Invalid GLTF: missing asset information", ""))

\* A finished run on a document without asset version whose first buffer is
\* external and whose primitive reads an accessor of an unsupported type.
C18_Witness ==
    /\ gpc = "done"
    /\ LacksAsset
    /\ Len(gltf.buffers) > 0
    /\ gltf.buffers[1].uri = Some(ExternalURI("mesh.bin"))
    /\ Len(gltf.meshes) > 0
    /\ primitivesOf(gltf.meshes[1]) # <<>>
    /\ gltf.meshes[1].primitives[1][1].attributes
           = Some([POSITION |-> Some(2), NORMAL |-> None, TEXCOORD_0 |-> None])
    /\ gresult.error.message = "Invalid GLTF: missing asset information"

\* The buffers of the document that parseGLTF does not support: those with
\* an external URI or with none.
Unsupported(buffer) == buffer.uri = None \/ buffer.uri[1].scheme # "data:"

\* Exactly buffer k (0-based) is unsupported; the others are embedded and
\* well-formed.
OnlyUnsupported(k) ==
    /\ k < Len(gltf.buffers)
    /\ Unsupported(gltf.buffers[k + 1])
    /\ \A j \in 1..Len(gltf.buffers) :
           j # k + 1 => gltf.buffers[j].uri = Some(DataURI(btoa(GeometryBytes)))

\* C19: parseGLTF on a glTF whose buffer k has an external URI, or no URI,
\* fails with an error that names the buffer index k, for every position k
\* of the offending buffer in the buffers list.
C19_ErrorNamesBuffer ==
    \A k \in 0..(MaxBuffers - 1) :
        (gpc = "done" /\ parseJSON(gltf).ok /\ OnlyUnsupported(k))
            => /\ ~gresult.ok
               /\ gresult.error.detail = IntToString(k)

\* The accessors that readAccessor refuses once the buffers are loaded.
Unreadable(accessorIndex) == ~readAccessor(gltf, gbuffers.value, accessorIndex).ok

\* The accessors of an unsupported component type.
UnsupportedType(accessorIndex) ==
    /\ at(gltf.accessors, accessorIndex) # None
    /\ gltf.accessors[accessorIndex + 1].componentType
           \notin {FLOAT, UNSIGNED_SHORT, UNSIGNED_INT}

\* The accessors a primitive names: POSITION, NORMAL, TEXCOORD_0, indices.
accessorsOf(primitive) ==
    {a[1] : a \in ((IF primitive.attributes = None THEN {}
                    ELSE {primitive.attributes[1].POSITION, primitive.attributes[1].NORMAL,
                          primitive.attributes[1].TEXCOORD_0})
                       \cup {primitive.indices}) \ {None}}

\* C20: an accessor with a componentType other than FLOAT, UNSIGNED_SHORT or
\* UNSIGNED_INT is a hard error: whenever the POSITION, NORMAL, TEXCOORD_0 or
\* indices accessor of a primitive has such a type, or cannot be read,
\* parseGLTF fails and returns no ok Scene.
C20_UnreadableAccessorFails ==
    (gpc = "done" /\ gbuffers.ok)
        => \A m \in 1..Len(gltf.meshes) :
               \A p \in 1..Len(primitivesOf(gltf.meshes[m])) :
                   (\E a \in accessorsOf(primitivesOf(gltf.meshes[m])[p]) :
                        UnsupportedType(a) \/ Unreadable(a))
                       => ~gresult.ok

\* The values of the index accessor of a primitive, once the buffers are
\* loaded.
indexData(primitive) == readAccessor(gltf, gbuffers.value, primitive.indices[1]).value

\* The faces of the scene that come from primitive p of mesh m, the only
\* primitive of its mesh.
facesOfPrimitive(m) == gresult.value.meshes[m].faces

\* C21: glTF index buffers are grouped in triples: for a primitive whose
\* index accessor holds n values, every face produced has exactly 3 defined
\* integer indices, taken from the consecutive positions 3j, 3j+1, 3j+2 of
\* the index data in order; no face has a missing (undefined) index, for
\* every n, divisible by 3 or not.
C21_IndexTriples ==
    (gpc = "done" /\ gresult.ok)
        => \A m \in 1..Len(gltf.meshes) :
               (Len(primitivesOf(gltf.meshes[m])) = 1
                    /\ gltf.meshes[m].primitives[1][1].indices # None)
                   => \A j \in 1..Len(facesOfPrimitive(m)) :
                          /\ Len(facesOfPrimitive(m)[j].indices) = 3
                          /\ \A k \in 1..3 :
                                 /\ facesOfPrimitive(m)[j].indices[k].int
                                 /\ 3 * (j - 1) + k
                                        <= Len(indexData(gltf.meshes[m].primitives[1][1]))
                                 /\ facesOfPrimitive(m)[j].indices[k]
                                        = Idx(indexData(gltf.meshes[m].primitives[1][1])
                                                  [3 * (j - 1) + k].v)

\* C22: parseGLTF never throws for malformed input: for every JSON text,
\* a mesh without a `primitives` list and a primitive without an
\* `attributes` object included, it returns a Result, ok or error, instead
\* of leaving with an exception.
C22_NeverThrows == gpc = "done" => ~IsThrown(gresult)

(***************************************************************************)
(* convertSceneToPLY: the encoder of a Scene as ASCII PLY text             *)
(***************************************************************************)
\* String(n) of a face index: an integer, or the non-integer 0.5.
indexText(i) == IF i.int THEN IntToString(i.v) ELSE "0.5"

\* values.join(" ") as the pieces between the spaces: the empty string for
\* no value at all.
joinSpace(texts) == IF texts = <<>> THEN <<"">> ELSE texts

\* `${vertices.length}`-style header of the text, one line per element.
plyHeader(vertices, faces) ==
    <<<<"ply">>, <<"format", "ascii", "1.0">>,
      <<"element", "vertex", IntToString(Len(vertices))>>,
      <<"property", "float", "x">>, <<"property", "float", "y">>,
      <<"property", "float", "z">>, <<"property", "float", "nx">>,
      <<"property", "float", "ny">>, <<"property", "float", "nz">>,
      <<"element", "face", IntToString(Len(faces))>>,
      <<"property", "list", "uchar", "int", "vertex_indices">>,
      <<"end_header">>>>

\* v.normal?.x ?? 0 and its two siblings.
normalOrZero(v) == IF v.normal = None THEN Origin ELSE v.normal[1]

vertexLine(v) ==
    joinSpace(<<fmt(v.position.x), fmt(v.position.y), fmt(v.position.z),
                fmt(normalOrZero(v).x), fmt(normalOrZero(v).y), fmt(normalOrZero(v).z)>>)

\* Mutant: every face is announced as a triangle.
faceLineAsTriangle(f) ==
    <<"3">> \o joinSpace([k \in 1..Len(f.indices) |-> indexText(f.indices[k])])

\* `${f.indices.length} ${f.indices.join(" ")}`
faceLine(f) ==
    <<IntToString(Len(f.indices))>>
        \o joinSpace([k \in 1..Len(f.indices) |-> indexText(f.indices[k])])

\* The text of a mesh with vertices and faces, as its lines: each one is
\* followed by one line break in the text.
plyLines(vertices, faces) ==
    plyHeader(vertices, faces)
        \o [i \in 1..Len(vertices) |-> vertexLine(vertices[i])]
        \o [i \in 1..Len(faces) |-> faceLine(faces[i])]

\* Mutant: the meshes are encoded from the last one.
convertSceneToPLYLastMesh(s) ==
    IF Len(s.meshes) = 0 THEN Err("Scene contains no meshes")
    ELSE IF Len(s.meshes[Len(s.meshes)].vertices) = 0 THEN Err("Mesh contains no vertices")
    ELSE IF Len(s.meshes[Len(s.meshes)].faces) = 0 THEN Err("Mesh contains no faces")
    ELSE Ok(plyLines(s.meshes[Len(s.meshes)].vertices, s.meshes[Len(s.meshes)].faces))

convertSceneToPLY(s) ==
    IF Len(s.meshes) = 0 THEN Err("Scene contains no meshes")
    ELSE IF Len(s.meshes[1].vertices) = 0 THEN Err("Mesh contains no vertices")
    ELSE IF Len(s.meshes[1].faces) = 0 THEN Err("Mesh contains no faces")
    ELSE Ok(plyLines(s.meshes[1].vertices, s.meshes[1].faces))

(***************************************************************************)
(* The export run: a caller assembles a Scene and hands it to              *)
(* convertSceneToPLY                                                       *)
(***************************************************************************)
MaxExportFaces == 2

\* The faces of an exported mesh: those of the validator run, one without
\* indices, one with four.
ExportFaceInputs ==
    FaceInputs \cup {createFace(<<>>, None),
                     createFace(<<Idx(0), Idx(1), Idx(0), Idx(1)>>, None)}

\* The first mesh of the scene.
ExportMeshInputs ==
    {createMesh("a", vs, fs, None) : vs \in SeqsUpTo(VertexInputs, MaxMeshVertices),
                                     fs \in SeqsUpTo(ExportFaceInputs, MaxExportFaces)}

\* The meshes after the first: empty, with vertices only, complete.
LaterMeshInputs ==
    {createMesh("b", <<>>, <<>>, None),
     createMesh("b", <<createVertex(Origin, None, None)>>, <<>>, None),
     createMesh("b", <<createVertex(createVec3(Num(1), Num(2), Num(3)), None, None)>>,
                <<createFace(<<Idx(0), Idx(0), Idx(0)>>, None)>>, None)}

AddExportMesh ==
    /\ vpc = "build"
    /\ Len(scene.meshes) < MaxMeshes
    /\ \E mesh \in (IF scene.meshes = <<>> THEN ExportMeshInputs ELSE LaterMeshInputs) :
         scene' = createScene(Append(scene.meshes, mesh), <<>>, scene.metadata)
    /\ UNCHANGED <<vpc, vresult, plyText>>
    /\ UNCHANGED <<objVars, plyVars, gltfVars, resVars, callVars>>

ConvertPLY ==
    /\ vpc = "build"
    /\ plyText' = convertSceneToPLY(scene)
    /\ vpc' = "converted"
    /\ UNCHANGED <<scene, vresult>>
    /\ UNCHANGED <<objVars, plyVars, gltfVars, resVars, callVars>>

NextConvertPLY == AddExportMesh \/ ConvertPLY

SpecConvertPLY == InitValidate /\ [][NextConvertPLY]_vars

(***************************************************************************)
(* Claims about convertSceneToPLY                                          *)
(***************************************************************************)
\* The scene has no meshes, or its first mesh has no vertices or no faces.
Unexportable(s) ==
    \/ s.meshes = <<>>
    \/ s.meshes[1].vertices = <<>>
    \/ s.meshes[1].faces = <<>>

\* The scene without its meshes after the first.
firstMeshOnly(s) == [s EXCEPT !.meshes = takeArray(1, s.meshes)]

\* C23: convertSceneToPLY returns a Result error, and no PLY text, exactly
\* when the scene has no meshes, or its first mesh has no vertices, or its
\* first mesh has no faces; in every other case it returns ok; the meshes
\* after the first change neither the outcome nor the output.
C23_RejectsExactlyUnexportable ==
    vpc = "converted"
        => /\ ~plyText.ok <=> Unexportable(scene)
           /\ ~plyText.ok => "value" \notin DOMAIN plyText
           /\ plyText.ok => plyText.value # <<>>
           /\ plyText = convertSceneToPLY(firstMeshOnly(scene))

\* A scene of two meshes, both with vertices and faces, was converted.
C23_Witness ==
    /\ vpc = "converted"
    /\ plyText.ok
    /\ Len(scene.meshes) = 2
    /\ scene.meshes[2].faces # <<>>

\* The values of a line of the text: what stands between its spaces.
valuesOf(line) == SelectSeq(line, LAMBDA t : t # "")

\* The position of the `end_header` line of a text; 0 when it has none.
endOfHeader(lines) == findEndHeader(lines)

\* The count that the header of a text declares for an element.
declaredCount(lines, name) ==
    parseInt((CHOOSE l \in {lines[k] : k \in 1..endOfHeader(lines)} :
                  Len(l) = 3 /\ l[1] = "element" /\ l[2] = name)[3]).v

\* The six values of the line of a vertex.
vertexValues(v) ==
    <<fmt(v.position.x), fmt(v.position.y), fmt(v.position.z)>>
        \o (IF v.normal = None THEN <<"0", "0", "0">>
            ELSE <<fmt(v.normal[1].x), fmt(v.normal[1].y), fmt(v.normal[1].z)>>)

\* The text has, after its header, n vertex lines for the vertices, then
\* m face lines for the faces, and nothing else.
bodyMatches(lines, vertices, faces, n, m) ==
    /\ n = Len(vertices)
    /\ m = Len(faces)
    /\ Len(lines) = endOfHeader(lines) + n + m
    /\ \A i \in 1..n : valuesOf(lines[endOfHeader(lines) + i]) = vertexValues(vertices[i])
    /\ \A j \in 1..m :
           /\ valuesOf(lines[endOfHeader(lines) + n + j])[1]
                  = IntToString(Len(faces[j].indices))
           /\ Tail(valuesOf(lines[endOfHeader(lines) + n + j]))
                  = [k \in 1..Len(faces[j].indices) |-> indexText(faces[j].indices[k])]

\* C24: in the text produced by convertSceneToPLY the header counts match
\* the body: `element vertex N` is followed after `end_header` by exactly N
\* vertex lines of 6 values (x y z nx ny nz, with 0 0 0 for an absent
\* normal) and `element face M` by exactly M face lines, each starting with
\* the literal index count of its face followed by exactly that many index
\* values in the order of the face.
C24_HeaderCountsMatchBody ==
    (vpc = "converted" /\ plyText.ok)
        => /\ endOfHeader(plyText.value) > 0
           /\ bodyMatches(plyText.value, scene.meshes[1].vertices, scene.meshes[1].faces,
                          declaredCount(plyText.value, "vertex"),
                          declaredCount(plyText.value, "face"))

\* The converted mesh has a vertex with a normal and one without, a face
\* of two indices and a face of four.
C24_Witness ==
    /\ vpc = "converted"
    /\ plyText.ok
    /\ Len(scene.meshes[1].vertices) = 2
    /\ scene.meshes[1].vertices[1].normal # None
    /\ scene.meshes[1].vertices[2].normal = None
    /\ Len(scene.meshes[1].faces) = 2
    /\ Len(scene.meshes[1].faces[1].indices) = 2
    /\ Len(scene.meshes[1].faces[2].indices) = 4

(***************************************************************************)
(* The collect run: a caller gathers elements, maps them to Results and    *)
(* hands the Results to `all`, directly or through traverse                *)
(***************************************************************************)
MaxItems == 4

\* The elements: two that the function accepts, two that it refuses.
ItemInputs == {"a", "b", "x", "y"}

\* The function mapped over the elements: a success with the element, or a
\* failure that names it.
accept(item) == IF item \in {"x", "y"} THEN Err(item) ELSE Ok(item)

\* arr.map(fn)
resultsOf(arr) == [i \in 1..Len(arr) |-> accept(arr[i])]

\* traverse(fn)(arr) = all(arr.map(fn)), for the function above.
traverse(arr) == all(resultsOf(arr))

InitAll ==
    /\ IdleOBJ
    /\ IdleValidate
    /\ IdlePLY
    /\ IdleGLTF
    /\ IdleCalls
    /\ items = <<>>
    /\ allPc = "build"
    /\ collected = Pending

AddItem ==
    /\ allPc = "build"
    /\ Len(items) < MaxItems
    /\ \E item \in ItemInputs : items' = Append(items, item)
    /\ UNCHANGED <<allPc, collected>>
    /\ UNCHANGED <<objVars, valVars, plyVars, gltfVars, callVars>>

CollectAll ==
    /\ allPc = "build"
    /\ collected' = all(resultsOf(items))
    /\ allPc' = "collected"
    /\ UNCHANGED items
    /\ UNCHANGED <<objVars, valVars, plyVars, gltfVars, callVars>>

Traverse ==
    /\ allPc = "build"
    /\ collected' = traverse(items)
    /\ allPc' = "traversed"
    /\ UNCHANGED items
    /\ UNCHANGED <<objVars, valVars, plyVars, gltfVars, callVars>>

NextAll == AddItem \/ CollectAll \/ Traverse

SpecAll == InitAll /\ [][NextAll]_vars

\* The position of the first failure of a sequence of Results; 0 if none.
firstFailure(results) ==
    IF \A k \in 1..Len(results) : results[k].ok THEN 0
    ELSE CHOOSE k \in 1..Len(results) :
            ~results[k].ok /\ \A j \in 1..(k - 1) : results[j].ok

\* C25: `all` over a sequence of Results: if every element is a success it
\* returns a success whose value list has the length and the order of the
\* input; otherwise it returns exactly the first failure in sequence order,
\* unchanged, and no later element, success or failure, affects the result.
C25_AllFirstFailure ==
    allPc \in {"collected", "traversed"}
        => IF firstFailure(resultsOf(items)) = 0
           THEN /\ collected.ok
                /\ Len(collected.value) = Len(items)
                /\ \A i \in 1..Len(items) : collected.value[i] = resultsOf(items)[i].value
           ELSE /\ collected = resultsOf(items)[firstFailure(resultsOf(items))]
                /\ \A later \in SeqsUpTo(ItemInputs, 1) :
                       all(resultsOf(SubSeq(items, 1, firstFailure(resultsOf(items)))
                                         \o later)) = collected

\* A sequence with a success, then a failure, then a success and another
\* failure was collected.
C25_Witness ==
    /\ allPc = "collected"
    /\ items = <<"a", "x", "b", "y">>

(***************************************************************************)
(* The paired run: two parsePLY calls of one process, each on its own      *)
(* binary buffer, take their reads in any order                            *)
(***************************************************************************)
\* The call of parsePLY on a file, before its first step; the file is that of
\* a geometry, with or without a comment quoting `end_header`. `off` is the
\* cursor (`let offset = 0` of ply.ts, the closure variable of
\* createBinaryReader in the rewrite); `acc` the record being read; `out`
\* the records of the current element; `last` the latest read or skip.
NoAccess == [kind |-> "none", type |-> "", declared |-> "", before |-> 0, ok |-> TRUE]

\* The file with a comment that quotes the keyword put after its format line.
withQuote(file) ==
    [file EXCEPT !.lines = SubSeq(@, 1, 2) \o << <<"comment", "end_header">> >>
                             \o SubSeq(@, 3, Len(@))]

NewCall(v, doc, o, quoted) ==
    [v |-> v, doc |-> doc, quoted |-> quoted,
     file |-> IF quoted THEN withQuote(writePLY(doc, o)) ELSE writePLY(doc, o), phase |-> "start", steps |-> 0, data |-> <<>>,
     header |-> None, littleEndian |-> FALSE, i |-> 0, j |-> 1, inList |-> FALSE,
     n |-> 0, off |-> 0, acc |-> None, items |-> <<>>, listErr |-> None, out |-> <<>>,
     vertices |-> <<>>, last |-> NoAccess, result |-> NoRun]

\* The cursor a call's reads start from: its own.
getOffsetOfFirstCall(cs, k) == cs[1].off

getOffset(cs, k) == cs[k].off

propertiesOf(c) == c.header.elements[c.phase].properties

isIndexList(c) ==
    /\ c.phase = "face"
    /\ IF c.v = PlyLoop
       THEN propertiesOf(c)[c.j] \in {"vertex_indices", "vertex_index"}
       ELSE /\ propertiesOf(c)[c.j].isList
            /\ propertiesOf(c)[c.j].name \in {"vertex_indices", "vertex_index"}

\* The type of the scalar the next access takes from the buffer.
accessType(c) ==
    IF c.v = PlyLoop
    THEN IF c.phase = "vertex" THEN "float"
         ELSE IF c.inList THEN "int" ELSE "uchar"
    ELSE IF isIndexList(c) /\ ~c.inList THEN propertiesOf(c)[c.j].listType
    ELSE propertiesOf(c)[c.j].type

\* The type the header of the file declares for that scalar.
declaredProperty(c) ==
    IF c.phase = "vertex" THEN c.doc.vprops[c.j] ELSE c.doc.fprops[c.j]

declaredType(c) ==
    IF declaredProperty(c).list /\ ~c.inList THEN declaredProperty(c).countType
    ELSE declaredProperty(c).type

isSkip(c) == c.v = PlyFold /\ c.phase = "face" /\ ~isIndexList(c)

\* The one access of a step: reader.read or reader.skip at the cursor.
access(c) ==
    IF isSkip(c) THEN skip(c.data, c.off, accessType(c))
    ELSE read(c.v, c.data, c.off, accessType(c), c.littleEndian)

bodyDecoder(header) ==
    IF header.format = "binary_little_endian" THEN "binary_little_endian"
    ELSE "binary_big_endian"

\* The call returns r.
finish(c, r) ==
    [c EXCEPT !.phase = "done", !.result = Outcome(sceneOf(r), bodyDecoder(c.header), c.off)]

initialRecord(v, phase) ==
    IF v = PlyLoop THEN (IF phase = "vertex" THEN None ELSE <<>>)
    ELSE IF phase = "vertex"
    THEN Ok([position |-> Some(Origin), normal |-> None, texCoord |-> None])
    ELSE Ok(<<>>)

\* The call once the access rd has returned, before the loops move on.
afterAccess(c, rd) ==
    pipe([c EXCEPT !.off = rd.off,
                   !.last = [kind |-> IF isSkip(c) THEN "skip" ELSE "read",
                             type |-> accessType(c), declared |-> declaredType(c),
                             before |-> c.off, ok |-> rd.r.ok]],
         LAMBDA b :
             IF c.v = PlyLoop
             THEN IF ~rd.r.ok THEN finish(b, rd.r)
                  ELSE IF c.phase = "vertex"
                  THEN [b EXCEPT !.j = @ + 1,
                                 !.acc = IF propertiesOf(c)[c.j] \in {"x", "y", "z"}
                                         THEN setPosition(@, propertiesOf(c)[c.j],
                                                          rd.r.value)
                                         ELSE @]
                  ELSE IF ~isIndexList(c) THEN [b EXCEPT !.j = @ + 1]
                  ELSE IF ~c.inList THEN [b EXCEPT !.inList = TRUE, !.n = rd.r.value.v]
                  ELSE [b EXCEPT !.acc = Append(@, rd.r.value), !.n = @ - 1]
             ELSE IF c.phase = "vertex"
             THEN [b EXCEPT !.j = @ + 1,
                            !.acc = IF ~rd.r.ok THEN rd.r
                                    ELSE Ok(setComponent(@.value, propertiesOf(c)[c.j].name,
                                                         rd.r.value))]
             ELSE IF ~isIndexList(c)
             THEN [b EXCEPT !.j = @ + 1, !.acc = IF ~rd.r.ok THEN rd.r ELSE @]
             ELSE IF ~c.inList
             THEN IF ~rd.r.ok THEN [b EXCEPT !.j = @ + 1, !.acc = rd.r]
                  ELSE [b EXCEPT !.inList = TRUE, !.n = rd.r.value.v, !.items = <<>>,
                                 !.listErr = None]
             ELSE [b EXCEPT !.n = @ - 1,
                            !.items = IF rd.r.ok THEN Append(@, rd.r.value) ELSE @,
                            !.listErr = IF ~rd.r.ok /\ @ = None THEN Some(rd.r) ELSE @])

\* The records of the element are all read.
endOfElement(c, rs) ==
    IF ~rs.ok THEN finish(c, rs)
    ELSE IF c.phase = "vertex" /\ "face" \in DOMAIN c.header.elements
    THEN [c EXCEPT !.phase = "face", !.vertices = rs.value, !.out = <<>>, !.i = 0, !.j = 1,
                   !.acc = initialRecord(c.v, "face")]
    ELSE IF c.phase = "vertex"
    THEN finish(c, Ok([vertices |-> rs.value, faces |-> <<>>]))
    ELSE finish(c, Ok([vertices |-> c.vertices, faces |-> rs.value]))

\* The list of the record is read: the indices join those of the record.
endOfList(c) ==
    IF c.v = PlyLoop THEN [c EXCEPT !.inList = FALSE, !.j = @ + 1]
    ELSE [c EXCEPT !.inList = FALSE, !.j = @ + 1,
                   !.acc = IF c.listErr # None THEN c.listErr[1]
                           ELSE Ok(@.value \o c.items)]

\* The properties of the record are all read: the record joins the others.
endOfRecord(c) ==
    IF c.v = PlyLoop /\ c.phase = "vertex" /\ c.acc = None
    THEN finish(c, Err(ParseError("Missing vertex position data", -1)))
    ELSE [c EXCEPT !.i = @ + 1, !.j = 1, !.acc = initialRecord(c.v, c.phase),
                   !.out = IF c.v = PlyLoop
                           THEN IF c.phase = "vertex"
                                THEN Append(@, createVertex(c.acc[1], None, None))
                                ELSE IF Len(c.acc) > 0
                                THEN Append(@, createFace(toIndices(c.acc), None))
                                ELSE @
                           ELSE IF ~c.acc.ok THEN Append(@, c.acc)
                           ELSE IF c.phase = "vertex"
                           THEN Append(@, Ok(createVertex(c.acc.value.position[1],
                                                          c.acc.value.normal,
                                                          c.acc.value.texCoord)))
                           ELSE Append(@, Ok(createFace(toIndices(c.acc.value), None)))]

\* The loops move on, without touching the buffer, to the next access or to
\* the return.
RECURSIVE untilNextAccess(_)
untilNextAccess(c) ==
    IF c.phase = "done" THEN c
    ELSE IF c.i >= c.header.elements[c.phase].count
    THEN untilNextAccess(endOfElement(c, IF c.v = PlyLoop THEN Ok(c.out) ELSE all(c.out)))
    ELSE IF c.inList /\ c.n <= 0 THEN untilNextAccess(endOfList(c))
    ELSE IF c.inList THEN c
    ELSE IF c.j > Len(propertiesOf(c)) \/ (c.v = PlyFold /\ ~c.acc.ok)
    THEN untilNextAccess(endOfRecord(c))
    ELSE IF /\ c.v = PlyLoop
            /\ c.phase = "face"
            /\ ~isIndexList(c)
            /\ propertiesOf(c)[c.j] \notin {"red", "green", "blue", "alpha"}
    THEN untilNextAccess([c EXCEPT !.j = @ + 1])
    ELSE c

\* parseBinaryFromArrayBuffer up to the first access of the body.
startOfBody(c, h) ==
    IF ~h.ok THEN [c EXCEPT !.phase = "done", !.result = Outcome(h, "none", -1)]
    ELSE IF indexOfEndHeader(c.file.lines) = 0
    THEN [c EXCEPT !.phase = "done",
                   !.result = Outcome(Err(ParseError("Could not find end_header", -1)),
                                      "none", -1)]
    ELSE IF "vertex" \notin DOMAIN h.value.header.elements
    THEN finish([c EXCEPT !.header = h.value.header, !.off = 0],
                Err(ParseError("Missing vertex element", -1)))
    ELSE untilNextAccess([c EXCEPT !.header = h.value.header,
                                   !.data = binaryData(c.file),
                                   !.littleEndian =
                                       h.value.header.format = "binary_little_endian",
                                   !.phase = "vertex", !.off = 0,
                                   !.acc = initialRecord(c.v, "vertex")])

\* One step of a call: the header, or one access and what follows it up to
\* the next access.
step(c) ==
    pipe(IF c.phase = "start" THEN startOfBody(c, parseHeader(c.v, textLines(c.file)))
         ELSE untilNextAccess(afterAccess(c, access(c))),
         LAMBDA d : [d EXCEPT !.steps = c.steps + 1])

\* The geometries of the paired run.
PairDocInputs ==
    {[vprops |-> <<Scalar("float", "x"), Scalar("float", "y"), Scalar("float", "z")>>,
      vertices |-> << <<1, 0, 2>> >>, fprops |-> <<>>, faces |-> <<>>],
     [vprops |-> <<Scalar("double", "x"), Scalar("double", "y"), Scalar("double", "z")>>,
      vertices |-> << <<1, 0, 2>>, <<0, 0, 0>> >>,
      fprops |-> <<List("uchar", "int", "vertex_indices")>>,
      faces |-> <<[count |-> 3, indices |-> <<0, 1, 0>>]>>],
     [vprops |-> <<Scalar("float", "x"), Scalar("float", "y"), Scalar("float", "z")>>,
      vertices |-> << <<0, 0, 0>> >>,
      fprops |-> <<List("uchar", "int", "vertex_indices"), Scalar("uchar", "red")>>,
      faces |-> <<[count |-> 3, indices |-> <<0, 1>>]>>]}

PairOptions ==
    {o \in PlyOptions :
        o.body = "binary" /\ o.input = "buffer" /\ ~o.comment /\ o.extra = 0}

MaxCalls == 2

InitPair ==
    /\ IdleOBJ
    /\ IdleValidate
    /\ IdlePLY
    /\ IdleGLTF
    /\ IdleResult
    /\ calls = <<>>

\* parsePLY is called on a buffer.
Invoke ==
    /\ Len(calls) < MaxCalls
    /\ \E v \in PlyVariants, doc \in PairDocInputs, o \in PairOptions :
         /\ \A k \in 1..Len(calls) : calls[k].v = v
         /\ calls' = Append(calls, NewCall(v, doc, o, FALSE))
    /\ UNCHANGED <<objVars, valVars, plyVars, gltfVars, resVars>>

\* A call takes its next step.
Step ==
    /\ \E k \in 1..Len(calls) :
         /\ calls[k].phase # "done"
         /\ calls' = [calls EXCEPT ![k] = step([calls[k] EXCEPT !.off = getOffset(calls, k)])]
    /\ UNCHANGED <<objVars, valVars, plyVars, gltfVars, resVars>>

NextPair == Invoke \/ Step

SpecPair == InitPair /\ [][NextPair]_vars

(***************************************************************************)
(* The quoted run: one parsePLY call on a binary buffer whose header may   *)
(* hold a comment that quotes `end_header`                                 *)
(***************************************************************************)
InvokeQuoted ==
    /\ calls = <<>>
    /\ \E v \in PlyVariants, doc \in PairDocInputs, o \in PairOptions, quoted \in BOOLEAN :
         calls' = <<NewCall(v, doc, o, quoted)>>
    /\ UNCHANGED <<objVars, valVars, plyVars, gltfVars, resVars>>

NextQuoted == InvokeQuoted \/ Step

SpecQuoted == InitPair /\ [][NextQuoted]_vars

\* The call as it stands after n steps taken with no other call in between.
RECURSIVE alone(_, _)
alone(c, n) == IF n = 0 THEN c ELSE alone(step(c), n - 1)

\* What a call has done so far: where it is, its cursor, the records it
\* holds and its outcome.
progress(c) ==
    [phase |-> c.phase, i |-> c.i, j |-> c.j, off |-> c.off, out |-> c.out,
     vertices |-> c.vertices, result |-> c.result]

C28_CursorInvariant ==
    \A k \in 1..Len(calls) :
        /\ 0 <= calls[k].off
        /\ calls[k].off <= Len(calls[k].data)
        /\ calls[k].last.kind # "none" =>
              calls[k].off = calls[k].last.before
                               + (IF calls[k].last.ok THEN sizes(calls[k].last.declared)
                                  ELSE 0)

\* C27: the payload a call decodes is what the file holds after the line
\* break of the `end_header` line that ends the header, whatever the header
\* says before that line; the call then returns what it returns on the file
\* without the comment.
C27_PayloadAfterTerminator ==
    \A k \in 1..Len(calls) :
        /\ calls[k].phase \in {"vertex", "face"} => calls[k].data = calls[k].file.payload
        /\ calls[k].phase = "done" =>
              calls[k].result
                = parsePLY(calls[k].v, writePLY(calls[k].doc, calls[k].file.how))

\* The counts the header of the written file declares.
declaredVertices == Len(plyDoc.vertices) + plyFile.how.extra

declaredFaces == IF plyDoc.fprops = <<>> THEN 0 ELSE Len(plyDoc.faces)

\* C30: an ok Scene of parsePLY has as many vertices and faces as the header
\* declares, and its metadata counts are those numbers; a body with fewer
\* records than declared gives no Scene.
C30_DeclaredCounts ==
    (plyPc # "write" /\ plyPc # "idle" /\ plyRun.result.ok) =>
        /\ Len(plyRun.result.value.meshes[1].vertices) = declaredVertices
        /\ Len(plyRun.result.value.meshes[1].faces) = declaredFaces
        /\ plyRun.result.value.metadata.vertexCount = declaredVertices
        /\ plyRun.result.value.metadata.faceCount = declaredFaces

(***************************************************************************)
(* The flattening run: parseGLTF on a document of two readable buffers     *)
(* whose mesh has several primitives                                       *)
(***************************************************************************)
\* The bytes of the second buffer: the positions (2,2,2), (1,1,1), (2,0,1).
OtherGeometryBytes ==
    concat(<<encode(2, "float", TRUE), encode(2, "float", TRUE), encode(2, "float", TRUE),
             encode(1, "float", TRUE), encode(1, "float", TRUE), encode(1, "float", TRUE),
             encode(2, "float", TRUE), encode(0, "float", TRUE), encode(1, "float", TRUE)>>,
           1)

\* A document with both buffers embedded and no mesh yet.
TwoBufferGLTF ==
    [EmptyGLTF EXCEPT !.asset = Some([version |-> Some("2.0")]),
                      !.buffers = <<[uri |-> Some(DataURI(btoa(GeometryBytes)))],
                                    [uri |-> Some(DataURI(btoa(OtherGeometryBytes)))]>>,
                      !.bufferViews = BufferViewTable, !.accessors = AccessorTable]

\* The primitives of the run: positions from the first or the second
\* buffer, with the index triple (0, 1, 2) or without indices.
FlatPrimitiveInputs ==
    {[attributes |-> Some([POSITION |-> p, NORMAL |-> None, TEXCOORD_0 |-> None]),
      indices |-> i, material |-> None] : p \in {Some(0), Some(3)}, i \in {None, Some(1)}}

MaxFlatPrimitives == 3

InitFlatten ==
    /\ IdleOBJ
    /\ IdleValidate
    /\ IdlePLY
    /\ IdleResult
    /\ IdleCalls
    /\ gltf = TwoBufferGLTF
    /\ gpc = "write"
    /\ gwork = <<>>
    /\ gbuffers = Pending
    /\ gresult = Pending

AddFlatPrimitive ==
    /\ gpc = "write"
    /\ Len(gltf.meshes) > 0
    /\ gltf.meshes[Len(gltf.meshes)].primitives # None
    /\ Len(gltf.meshes[Len(gltf.meshes)].primitives[1]) < MaxFlatPrimitives
    /\ \E p \in FlatPrimitiveInputs :
           gltf' = [gltf EXCEPT !.meshes[Len(gltf.meshes)].primitives[1] = Append(@, p)]
    /\ UNCHANGED <<gpc, gwork, gbuffers, gresult, objVars, valVars, plyVars, resVars, callVars>>

NextFlatten == AddGltfMesh \/ AddFlatPrimitive \/ ParseJSON \/ LoadBuffers \/ BuildScene

SpecFlatten == InitFlatten /\ [][NextFlatten]_vars

\* What parseMesh returns for primitive p of mesh m: its vertices and the
\* faces that refer to them.
ownGeometry(m, p) ==
    parsePrimitive(gltf, gbuffers.value, gltf.meshes[m].primitives[1][p], <<>>).r.value

\* The numbers of vertices and of faces of the primitives before p.
RECURSIVE verticesBefore(_, _)
verticesBefore(m, p) ==
    IF p <= 1 THEN 0
    ELSE Len(ownGeometry(m, p - 1).vertices) + verticesBefore(m, p - 1)

RECURSIVE facesBefore(_, _)
facesBefore(m, p) ==
    IF p <= 1 THEN 0
    ELSE Len(ownGeometry(m, p - 1).faces) + facesBefore(m, p - 1)

\* C29: in the mesh of an ok Scene, the face that comes from face f of
\* primitive p refers, index by index, to the place in the mesh's vertex
\* list of the vertex that index designates in primitive p: the vertices of
\* the primitives before p come first.
C29_FacesReferOwnVertices ==
    (gpc = "done" /\ gresult.ok)
        => \A m \in 1..Len(gltf.meshes) :
               \A p \in 1..Len(primitivesOf(gltf.meshes[m])) :
                   \A f \in 1..Len(ownGeometry(m, p).faces) :
                       \A k \in 1..Len(ownGeometry(m, p).faces[f].indices) :
                           gresult.value.meshes[m].faces[facesBefore(m, p) + f].indices[k]
                               = Idx(verticesBefore(m, p)
                                       + ownGeometry(m, p).faces[f].indices[k].v)

====
